---- MODULE Spec2Model ----
(***************************************************************************)
(* A model of the entity-resolution and fact-attachment pipeline of the    *)
(* Continuity prototype (continuity-ai-prototype/AI):                      *)
(*   - models/ner_extractor.py : NERExtractor / HybridNERExtractor         *)
(*   - models/llm_manager.py   : LLMManager (serialization gate)           *)
(*   - rag/pipeline.py         : RAGPipeline.query_stream                  *)
(*   - models/fact_extractor.py: FactExtractor                             *)
(*   - models/entity_extractor.py: EntityExtractor                         *)
(*   - interfaces/web_api.py   : POST /entities/extract                    *)
(* and of continuity-data-ingestion/AI/database/entity_store.py:           *)
(* EntityStore.                                                            *)
(*                                                                         *)
(* Strings are sequences of one-character strings; the right single        *)
(* quotation mark U+2019 is the atom RSQ.  Python offsets are 0-based:     *)
(* Slice(s, a, b) is s[a:b].  Confidences are integers in percent          *)
(* (0.85 -> 85).  An entity id "ent_%06d" % n is modelled by the number n  *)
(* (the format is injective).                                              *)
(***************************************************************************)
EXTENDS Integers, Sequences, FiniteSets, TLC

VARIABLES
    \* ---- NERExtractor.extract_entities / HybridNERExtractor.extract_entities
    text,            \* the input text
    by_key,          \* dict (entityType, normalized) -> entity, in insertion order
    entity_counter,  \* next sequential id
    nres,            \* number of ner_results consumed by the loop so far
    last,            \* the ner_result consumed by the latest loop iteration
    pc,              \* "idle" | "loop" | "ner_done" | "hybrid_done"
    entities,        \* the list returned by the latest extract_entities
    accepted,        \* history: the ner_results that passed the filters, in order,
                     \* each with its key and its possessive-stripped form
    \* ---- LLMManager and its callers
    lockq,           \* self._lock: the holder (head) and the FIFO of waiters
    calls,           \* per task: the LLMManager call it is in and where
    thread,          \* per task: the executor job its call awaits
    orphans,         \* executor jobs still running after their caller timed out
    loop_run,        \* the task iterating a stream on the event-loop thread, or 0
    ncalls,          \* number of calls started
    kv,              \* the runtime's state (KV cache): "clean" | "used" | "stale"
    stale_start,     \* history: an invocation began on state a failed call left
    last_reset,      \* history: the latest self.llm.reset() and what ran beside it
    \* ---- FactExtractor.extract_facts_for_entities
    ftext,           \* text
    fents,           \* entities
    use_llm,         \* self.llm and self.use_llm
    rules_fallback,  \* self.rules_fallback
    max_facts_per_entity,
    fpc,             \* "idle" | "entities" | "sentences" | "dedup" | "returned" | "raised"
    ei,              \* number of entities the outer loop has taken
    mention_sents,   \* mention_sents of the current entity
    si,              \* number of mention sentences the inner loop has taken
    facts,           \* facts of the current entity
    results,         \* results
    llm_facts,       \* the local llm_facts: unbound until the first assignment
    exc,             \* the exception the call raised, or ""
    llm_log,         \* history: outcome of each generate_json call, in order
    \* ---- FactExtractor._llm_extract_facts_for_sentence_async
    cuse_llm,        \* self.llm and self.use_llm
    cpc,             \* "idle" | "start" | "called" | "parsed" | "returned" | "raised"
    ctext,           \* text: what generate_json returned
    cdata,           \* data: what _safe_json returned
    cfacts,          \* facts: the list returned
    cexc,            \* the exception the call raised, or ""
    \* ---- EntityExtractor.extract_entities
    xpc,             \* "idle" | "validating" | "validate_batch" | "classifying"
                     \* | "classify_batch" | "returned"
    candidates,      \* candidates
    bi,              \* i of "for i in range(0, len(...), batch_size)"
    batch,           \* batch
    vi,              \* number of candidates the validation loop has taken
    validated,       \* validated
    ci,              \* number of validated names the classification loop has taken
    raw_entities,    \* the local entities
    formatted_entities, \* the list returned
    vout,            \* history: outcome of each validation call, in order
    cout,            \* history: outcome of each classification call, in order
    xlog,            \* history: the context resets and the completion calls the
                     \* pipeline made, in order
    \* ---- EntityStore and the API's POST /entities/extract
    store_entities,  \* self.entities: dict id -> entity, in insertion order
    disk,            \* the storage file: the entity list last written
    nops,            \* number of store operations performed
    returned_log,    \* history: the entities the extraction calls returned, in order
    api_only,        \* history: only extraction calls have touched the store
    last_op,         \* history: the latest store operation and the id it returned
    \* ---- FactExtractor._split_sentences_with_spans
    split_text,      \* text
    split_pc,        \* "idle" | "returned"
    split_sentences  \* the list returned

nerVars == <<text, by_key, entity_counter, nres, last, pc, entities, accepted>>
llmVars == <<lockq, calls, thread, orphans, loop_run, ncalls, kv, stale_start, last_reset>>
factVars == <<ftext, fents, use_llm, rules_fallback, max_facts_per_entity, fpc, ei, mention_sents,
              si, facts, results, llm_facts, exc, llm_log>>
sentVars == <<cuse_llm, cpc, ctext, cdata, cfacts, cexc>>
entVars == <<xpc, candidates, bi, batch, vi, validated, ci, raw_entities, formatted_entities,
             vout, cout, xlog>>
storeVars == <<store_entities, disk, nops, returned_log, api_only, last_op>>
splitVars == <<split_text, split_pc, split_sentences>>
vars == <<nerVars, llmVars, factVars, sentVars, entVars, storeVars, splitVars>>

(***************************************************************************)
(* Characters (str.isalnum, str.isspace, str.lower, regex \w)              *)
(***************************************************************************)
RSQ == "rsquo"
LDQ == "ldquo"
RDQ == "rdquo"
HRQ == "hrquo"
DQ == "\""
SQ == "'"
BSL == "\\"
TICK == "backtick"
BACKSPACE == "backspace"
UpperChars == <<"A","B","C","D","E","F","G","H","I","J","K","L","M","N","O","P","Q","R","S","T","U","V","W","X","Y","Z">>
LowerChars == <<"a","b","c","d","e","f","g","h","i","j","k","l","m","n","o","p","q","r","s","t","u","v","w","x","y","z">>
DigitChars == <<"0","1","2","3","4","5","6","7","8","9">>
UpperSet == {UpperChars[i] : i \in 1..Len(UpperChars)}
LowerSet == {LowerChars[i] : i \in 1..Len(LowerChars)}
DigitSet == {DigitChars[i] : i \in 1..Len(DigitChars)}

IsUpper(c) == c \in UpperSet
IsLower(c) == c \in LowerSet
IsAlpha(c) == c \in UpperSet \cup LowerSet
IsAlnum(c) == c \in UpperSet \cup LowerSet \cup DigitSet
IsSpace(c) == c \in {" ", "\t", "\n"}
IsWordChar(c) == IsAlnum(c) \/ c = "_"
ToLower(c) == IF c \in UpperSet
              THEN LowerChars[CHOOSE i \in 1..Len(UpperChars) : UpperChars[i] = c]
              ELSE c

\* Code-point order of the characters the model uses (for sorted()).
CharOrder == <<" ","!","'",",","-",".">> \o DigitChars \o <<"?">> \o UpperChars \o <<"_">> \o LowerChars \o <<RSQ>>
CharRank(c) == CHOOSE i \in 1..Len(CharOrder) : CharOrder[i] = c

(***************************************************************************)
(* Strings                                                                 *)
(***************************************************************************)
MinOf(S) == CHOOSE x \in S : \A y \in S : x <= y
MaxOf(S) == CHOOSE x \in S : \A y \in S : x >= y

\* s[a:b] for 0 <= a, b
Slice(s, a, b) == SubSeq(s, a + 1, IF b > Len(s) THEN Len(s) ELSE b)

RECURSIVE KeepFrom(_, _, _)
KeepFrom(s, K, i) ==
    IF i > Len(s) THEN <<>>
    ELSE (IF i \in K THEN <<s[i]>> ELSE <<>>) \o KeepFrom(s, K, i + 1)

\* the subsequence of s at the indices in K
Keep(s, K) == KeepFrom(s, K, 1)

\* str.strip()
Strip(s) ==
    LET ns == {i \in 1..Len(s) : ~IsSpace(s[i])}
    IN IF ns = {} THEN <<>> ELSE SubSeq(s, MinOf(ns), MaxOf(ns))

\* str.lower()
LowerStr(s) == [i \in 1..Len(s) |-> ToLower(s[i])]

\* str.replace(c, "") for a single character c
RemoveChar(s, c) == Keep(s, {i \in 1..Len(s) : s[i] # c})

\* re.sub(r"\s+", " ", s)
CollapseWs(s) ==
    LET k == Keep(s, {i \in 1..Len(s) : ~IsSpace(s[i]) \/ i = 1 \/ ~IsSpace(s[i - 1])})
    IN [i \in 1..Len(k) |-> IF IsSpace(k[i]) THEN " " ELSE k[i]]

RECURSIVE SplitFrom(_, _, _)
SplitFrom(s, i, cur) ==
    IF i > Len(s) THEN (IF cur = <<>> THEN <<>> ELSE <<cur>>)
    ELSE IF IsSpace(s[i])
         THEN (IF cur = <<>> THEN <<>> ELSE <<cur>>) \o SplitFrom(s, i + 1, <<>>)
         ELSE SplitFrom(s, i + 1, Append(cur, s[i]))

\* str.split(), and [t for t in re.split(r"\s+", s.strip()) if t]
SplitWs(s) == SplitFrom(s, 1, <<>>)

\* lexicographic order of strings by code point
RECURSIVE StrLess(_, _)
StrLess(a, b) ==
    IF a = <<>> THEN b # <<>>
    ELSE IF b = <<>> THEN FALSE
    ELSE IF Head(a) = Head(b) THEN StrLess(Tail(a), Tail(b))
    ELSE CharRank(Head(a)) < CharRank(Head(b))

\* sorted(S) for a set of strings
RECURSIVE Sorted(_)
Sorted(S) ==
    IF S = {} THEN <<>>
    ELSE LET m == CHOOSE x \in S : \A y \in S \ {x} : StrLess(x, y)
         IN <<m>> \o Sorted(S \ {m})

(***************************************************************************)
(* A backtracking matcher for the fragment of Python's re syntax the       *)
(* source uses.  A pattern is a sequence of elements <<kind, arg>>:        *)
(*   <<"b", <<>>>>      \b                                                 *)
(*   <<"lit", w>>       the literal string w                               *)
(*   <<"alt", alts>>    (a1|a2|...), each alternative a pattern            *)
(*   <<"opt", body>>    (?:body)?   (greedy)                               *)
(*   <<"ws", <<>>>>     \s+         (greedy)                               *)
(*   <<"cap", <<>>>>    [A-Z][a-z]+ (greedy)                               *)
(* ReMatch gives the end offset of the match re would find at offset p     *)
(* (alternatives in order, longest repetition first), or -1.               *)
(***************************************************************************)
B == <<"b", <<>>>>
Ws == <<"ws", <<>>>>
Cap == <<"cap", <<>>>>
Lit(w) == <<"lit", w>>
Alt(alts) == <<"alt", alts>>
Opt(body) == <<"opt", body>>
\* (w1|w2|...) for literal words
Words(ws) == Alt([i \in 1..Len(ws) |-> <<Lit(ws[i])>>])

WordBoundary(s, p) ==
    (p > 0 /\ IsWordChar(s[p])) # (p < Len(s) /\ IsWordChar(s[p + 1]))

HasAt(s, p, w) ==
    /\ p + Len(w) <= Len(s)
    /\ \A i \in 1..Len(w) : s[p + i] = w[i]

RECURSIVE WsRun(_, _)
WsRun(s, p) == IF p < Len(s) /\ IsSpace(s[p + 1]) THEN 1 + WsRun(s, p + 1) ELSE 0

RECURSIVE LowerRun(_, _)
LowerRun(s, p) == IF p < Len(s) /\ IsLower(s[p + 1]) THEN 1 + LowerRun(s, p + 1) ELSE 0

RECURSIVE ReMatch(_, _, _)
RECURSIVE ReTry(_, _, _, _)
RECURSIVE ReAlt(_, _, _, _, _)
ReMatch(elems, s, p) ==
    IF elems = <<>> THEN p
    ELSE LET e == Head(elems)
             rest == Tail(elems)
         IN CASE e[1] = "b" -> IF WordBoundary(s, p) THEN ReMatch(rest, s, p) ELSE -1
              [] e[1] = "lit" -> IF HasAt(s, p, e[2])
                                 THEN ReMatch(rest, s, p + Len(e[2])) ELSE -1
              [] e[1] = "alt" -> ReAlt(e[2], 1, rest, s, p)
              [] e[1] = "opt" -> LET r == ReMatch(e[2] \o rest, s, p)
                                 IN IF r # -1 THEN r ELSE ReMatch(rest, s, p)
              [] e[1] = "ws" -> ReTry(rest, s, p, WsRun(s, p))
              [] e[1] = "cap" -> IF p < Len(s) /\ IsUpper(s[p + 1])
                                 THEN ReTry(rest, s, p + 1, LowerRun(s, p + 1))
                                 ELSE -1

\* a greedy repetition that took k characters from p, giving back one at a time
ReTry(rest, s, p, k) ==
    IF k < 1 THEN -1
    ELSE LET r == ReMatch(rest, s, p + k)
         IN IF r # -1 THEN r ELSE ReTry(rest, s, p, k - 1)

ReAlt(alts, j, rest, s, p) ==
    IF j > Len(alts) THEN -1
    ELSE LET r == ReMatch(alts[j] \o rest, s, p)
         IN IF r # -1 THEN r ELSE ReAlt(alts, j + 1, rest, s, p)

\* re.finditer(pattern, s): the spans <<start, end>> of the non-overlapping matches
RECURSIVE FindIterFrom(_, _, _)
FindIterFrom(elems, s, p) ==
    IF p > Len(s) THEN <<>>
    ELSE LET e == ReMatch(elems, s, p)
         IN IF e = -1 THEN FindIterFrom(elems, s, p + 1)
            ELSE <<<<p, e>>>> \o FindIterFrom(elems, s, IF e > p THEN e ELSE p + 1)

FindIter(elems, s) == FindIterFrom(elems, s, 0)

(***************************************************************************)
(* ner_extractor.py: name utilities                                        *)
(***************************************************************************)
PERSON_PARTICLES == {<<"v","a","n">>, <<"v","o","n">>, <<"d","e">>, <<"d","e","l">>, <<"d","a">>, <<"d","i">>, <<"l","a">>, <<"l","e">>}

\* _split_person_name: (tokens, last_name lowercased, has_particle)
SplitPersonName(name) ==
    LET toks == SplitWs(Strip(name))
    IN IF toks = <<>>
       THEN [toks |-> <<>>, last |-> <<>>, has_particle |-> FALSE]
       ELSE [toks |-> toks,
             last |-> LowerStr(toks[Len(toks)]),
             has_particle |-> \E i \in 1..(Len(toks) - 1) :
                                  LowerStr(toks[i]) \in PERSON_PARTICLES]

\* a boundary check that forgets the right-hand side
IsWordBoundaryLeftOnly(txt, start, end) == start = 0 \/ ~IsAlnum(txt[start])

\* _is_word_boundary(text, start, end)
IsWordBoundary(txt, start, end) ==
    LET left_ok == start = 0 \/ ~IsAlnum(txt[start])
        right_ok == end = Len(txt) \/ ~IsAlnum(txt[end + 1])
    IN left_ok /\ right_ok

\* _strip_possessive: re.sub(r"[’']s\b", "", name.strip())
StripPossessive(name) ==
    LET s == Strip(name)
        M == {i \in 1..(Len(s) - 1) :
                 /\ s[i] \in {"'", RSQ}
                 /\ s[i + 1] = "s"
                 /\ (i + 2 > Len(s) \/ ~IsWordChar(s[i + 2]))}
    IN Keep(s, (1..Len(s)) \ (M \cup {i + 1 : i \in M}))

\* a normalization that forgets to lowercase
NormalizeNameKeepCase(name) == Strip(CollapseWs(StripPossessive(name)))

\* _normalize_name: lowercase + strip possessive + collapse whitespace
NormalizeName(name) == LowerStr(Strip(CollapseWs(StripPossessive(name))))

\* NERExtractor.label_mapping, with .get(raw_label, "concept")
LabelMapping(raw_label) ==
    CASE raw_label \in {"PER", "PERSON"} -> "character"
      [] raw_label \in {"LOC", "LOCATION", "GPE", "FACILITY"} -> "location"
      [] raw_label \in {"ORG", "ORGANIZATION"} -> "organization"
      [] raw_label \in {"PRODUCT", "ARTIFACT", "WEAPON"} -> "object"
      [] raw_label \in {"EVENT"} -> "event"
      [] raw_label \in {"MISC", "NORP", "LAW", "LANGUAGE", "WORK_OF_ART"} -> "concept"
      [] OTHER -> "concept"

\* the confidence threshold of the NER loop (0.85), in percent
NER_THRESHOLD == 85
\* the fixed confidence of a pattern match (0.90), in percent
PATTERN_CONFIDENCE == 90

(***************************************************************************)
(* NERExtractor.extract_entities: one iteration of the loop over           *)
(* ner_results.  A result is [start, end, entity_group, score].            *)
(***************************************************************************)
EntityName(txt, result) == Strip(Slice(txt, result.start, result.end))

\* filters without the confidence threshold
AcceptedAnyScore(txt, result) ==
    LET entity_name == EntityName(txt, result)
        normalized == NormalizeName(entity_name)
    IN /\ ~(Len(entity_name) < 2)
       /\ ~(Len(Strip(RemoveChar(RemoveChar(RemoveChar(entity_name, "."), ","), "-"))) < 2)
       /\ IsWordBoundary(txt, result.start, result.end)
       /\ ~(Len(normalized) = 1 /\ IsAlpha(normalized[1]))

\* the filters of the loop body; TRUE iff the iteration reaches "Prepare entity"
Accepted(txt, result) ==
    LET entity_name == EntityName(txt, result)
        normalized == NormalizeName(entity_name)
    IN /\ ~(Len(entity_name) < 2)
       /\ ~(Len(Strip(RemoveChar(RemoveChar(RemoveChar(entity_name, "."), ","), "-"))) < 2)
       /\ IsWordBoundary(txt, result.start, result.end)
       /\ ~(Len(normalized) = 1 /\ IsAlpha(normalized[1]))
       /\ ~(result.score < NER_THRESHOLD)

\* history: an accepted result with the key and the form the loop body gave it
Occurrence(txt, result) ==
    [start |-> result.start,
     end |-> result.end,
     entity_group |-> result.entity_group,
     score |-> result.score,
     key |-> <<LabelMapping(result.entity_group), NormalizeName(EntityName(txt, result))>>,
     form |-> Strip(StripPossessive(EntityName(txt, result)))]

KeyIndex(bk, key) == CHOOSE i \in 1..Len(bk) : bk[i].key = key
HasKey(bk, key) == \E i \in 1..Len(bk) : bk[i].key = key

\* the loop body: the pair (by_key, entity_counter) after consuming result
LoopBody(bk, counter, txt, result) ==
    LET entity_name == EntityName(txt, result)
        entity_type == LabelMapping(result.entity_group)
        key == <<entity_type, NormalizeName(entity_name)>>
        form == Strip(StripPossessive(entity_name))
    IN IF ~Accepted(txt, result)
       THEN [by_key |-> bk, entity_counter |-> counter]
       ELSE IF ~HasKey(bk, key)
       THEN [by_key |-> Append(bk, [key |-> key,
                                    id |-> counter,
                                    entityType |-> entity_type,
                                    name |-> form,
                                    version |-> 1,
                                    confidence |-> result.score,
                                    seen_forms |-> {form}]),
             entity_counter |-> counter + 1]
       ELSE LET i == KeyIndex(bk, key)
                ent == bk[i]
            IN [by_key |-> [bk EXCEPT ![i] =
                               [ent EXCEPT !.seen_forms = @ \cup {form},
                                           !.confidence = IF result.score > @
                                                          THEN result.score ELSE @,
                                           !.version = @ + 1]],
                entity_counter |-> counter]

(***************************************************************************)
(* Surname consolidation and finalization                                  *)
(***************************************************************************)
RemoveAt(seq, i) == SubSeq(seq, 1, i - 1) \o SubSeq(seq, i + 1, Len(seq))

\* an index construction in which the entity seen last wins a tie
RECURSIVE BuildSurnameIndexLastWins(_, _, _)
BuildSurnameIndexLastWins(bk, i, idx) ==
    IF i > Len(bk) THEN idx
    ELSE LET ent == bk[i]
             lastn == SplitPersonName(ent.name).last
         IN IF ent.entityType # "character" \/ lastn = <<>>
            THEN BuildSurnameIndexLastWins(bk, i + 1, idx)
            ELSE IF lastn \notin DOMAIN idx
            THEN BuildSurnameIndexLastWins(bk, i + 1, idx @@ (lastn :> ent.key))
            ELSE LET prev_ent == bk[KeyIndex(bk, idx[lastn])]
                 IN IF Len(SplitWs(prev_ent.name)) <= Len(SplitWs(ent.name))
                    THEN BuildSurnameIndexLastWins(bk, i + 1, [idx EXCEPT ![lastn] = ent.key])
                    ELSE BuildSurnameIndexLastWins(bk, i + 1, idx)

\* first pass: surname_index, last_name -> key of the entity with most tokens
RECURSIVE BuildSurnameIndex(_, _, _)
BuildSurnameIndex(bk, i, idx) ==
    IF i > Len(bk) THEN idx
    ELSE LET ent == bk[i]
             lastn == SplitPersonName(ent.name).last
         IN IF ent.entityType # "character" \/ lastn = <<>>
            THEN BuildSurnameIndex(bk, i + 1, idx)
            ELSE IF lastn \notin DOMAIN idx
            THEN BuildSurnameIndex(bk, i + 1, idx @@ (lastn :> ent.key))
            ELSE LET prev_ent == bk[KeyIndex(bk, idx[lastn])]
                 IN IF Len(SplitWs(prev_ent.name)) < Len(SplitWs(ent.name))
                    THEN BuildSurnameIndex(bk, i + 1, [idx EXCEPT ![lastn] = ent.key])
                    ELSE BuildSurnameIndex(bk, i + 1, idx)

SurnameIndex(bk) == BuildSurnameIndex(bk, 1, <<>>)

\* a merge that leaves the canonical entity's version alone
MergeIntoKeepVersion(canon, ent) ==
    [canon EXCEPT !.seen_forms = @ \cup ent.seen_forms \cup {ent.name},
                  !.confidence = IF ent.confidence > @ THEN ent.confidence ELSE @]

\* a merge that keeps the canonical entity's own confidence
MergeIntoKeepConfidence(canon, ent) ==
    [canon EXCEPT !.seen_forms = @ \cup ent.seen_forms \cup {ent.name},
                  !.version = @ + 1]

\* "Merge this entity into the canonical one": the canonical entity after the merge
MergeInto(canon, ent) ==
    [canon EXCEPT !.seen_forms = @ \cup ent.seen_forms \cup {ent.name},
                  !.version = @ + 1,
                  !.confidence = IF ent.confidence > @ THEN ent.confidence ELSE @]

\* second pass over the snapshot list(by_key.items()): merge and drop
RECURSIVE MergeSurnames(_, _, _, _)
MergeSurnames(snapshot, j, bk, idx) ==
    IF j > Len(snapshot) THEN bk
    ELSE LET key == snapshot[j].key
             ent == bk[KeyIndex(bk, key)]
             lastn == SplitPersonName(ent.name).last
         IN IF ent.entityType # "character" \/ lastn = <<>>
            THEN MergeSurnames(snapshot, j + 1, bk, idx)
            ELSE IF lastn \notin DOMAIN idx \/ idx[lastn] = key
            THEN MergeSurnames(snapshot, j + 1, bk, idx)
            ELSE LET c == KeyIndex(bk, idx[lastn])
                     bk2 == [bk EXCEPT ![c] = MergeInto(bk[c], ent)]
                 IN MergeSurnames(snapshot, j + 1, RemoveAt(bk2, KeyIndex(bk2, key)), idx)

Consolidate(bk) == MergeSurnames(bk, 1, bk, SurnameIndex(bk))

\* a finalization that leaves the primary name among the aliases
FinalizeEntityKeepName(ent) ==
    [id |-> ent.id,
     entityType |-> ent.entityType,
     name |-> ent.name,
     aliases |-> Sorted({a \in ent.seen_forms : a # <<>>}),
     version |-> ent.version,
     confidence |-> ent.confidence]

\* "Finalize entities": aliases from _seen_forms, _seen_forms popped
FinalizeEntity(ent) ==
    [id |-> ent.id,
     entityType |-> ent.entityType,
     name |-> ent.name,
     aliases |-> Sorted({a \in ent.seen_forms : a # <<>> /\ a # ent.name}),
     version |-> ent.version,
     confidence |-> ent.confidence]

Finalize(bk) == [i \in 1..Len(bk) |-> FinalizeEntity(bk[i])]

(***************************************************************************)
(* HybridNERExtractor: story_patterns and the pattern pass                 *)
(***************************************************************************)
TheOrA == Words(<<<<"t","h","e">>, <<"a">>>>)

CharacterPatterns == <<
    \* \bthe\s+(lighthouse\s+keeper|king|...|soldier)\b
    <<B, Lit(<<"t","h","e">>), Ws,
      Alt(<< <<Lit(<<"l","i","g","h","t","h","o","u","s","e">>), Ws, Lit(<<"k","e","e","p","e","r">>)>>,
             <<Lit(<<"k","i","n","g">>)>>, <<Lit(<<"q","u","e","e","n">>)>>, <<Lit(<<"p","r","i","n","c","e">>)>>,
             <<Lit(<<"p","r","i","n","c","e","s","s">>)>>, <<Lit(<<"w","i","z","a","r","d">>)>>, <<Lit(<<"k","n","i","g","h","t">>)>>,
             <<Lit(<<"m","e","r","c","h","a","n","t">>)>>, <<Lit(<<"c","a","p","t","a","i","n">>)>>, <<Lit(<<"d","o","c","t","o","r">>)>>,
             <<Lit(<<"p","r","o","f","e","s","s","o","r">>)>>, <<Lit(<<"d","e","t","e","c","t","i","v","e">>)>>, <<Lit(<<"p","r","i","e","s","t">>)>>,
             <<Lit(<<"m","o","n","k">>)>>, <<Lit(<<"s","a","i","l","o","r">>)>>, <<Lit(<<"g","u","a","r","d">>)>>,
             <<Lit(<<"s","o","l","d","i","e","r">>)>> >>),
      B>>,
    \* \b([A-Z][a-z]+(?:\s+[A-Z][a-z]+)?)\s+(?:said|asked|...|felt)\b
    <<B, Cap, Opt(<<Ws, Cap>>), Ws,
      Words(<<<<"s","a","i","d">>, <<"a","s","k","e","d">>, <<"r","e","p","l","i","e","d">>, <<"t","h","o","u","g","h","t">>, <<"w","o","n","d","e","r","e","d">>,
              <<"r","e","m","e","m","b","e","r","e","d">>, <<"k","n","e","w">>, <<"f","e","l","t">>>>),
      B>> >>

ObjectPatterns == <<
    \* \b(Sacred|Magic|Ancient|Legendary|Cursed)\s+([A-Z][a-z]+(?:\s+[A-Z][a-z]+)?)\b
    <<B, Words(<<<<"S","a","c","r","e","d">>, <<"M","a","g","i","c">>, <<"A","n","c","i","e","n","t">>, <<"L","e","g","e","n","d","a","r","y">>, <<"C","u","r","s","e","d">>>>), Ws,
      Cap, Opt(<<Ws, Cap>>), B>>,
    \* \b([A-Z][a-z]+)\s+(Sword|Shield|Staff|Amulet|Ring|Crown|Orb)\b
    <<B, Cap, Ws,
      Words(<<<<"S","w","o","r","d">>, <<"S","h","i","e","l","d">>, <<"S","t","a","f","f">>, <<"A","m","u","l","e","t">>, <<"R","i","n","g">>, <<"C","r","o","w","n">>, <<"O","r","b">>>>),
      B>>,
    \* \b(?:the|a)\s+(letter|map|key|book|scroll|diary|journal|compass|lantern|mirror)\b
    <<B, TheOrA, Ws,
      Words(<<<<"l","e","t","t","e","r">>, <<"m","a","p">>, <<"k","e","y">>, <<"b","o","o","k">>, <<"s","c","r","o","l","l">>, <<"d","i","a","r","y">>, <<"j","o","u","r","n","a","l">>,
              <<"c","o","m","p","a","s","s">>, <<"l","a","n","t","e","r","n">>, <<"m","i","r","r","o","r">>>>),
      B>> >>

LocationPatterns == <<
    \* \b([A-Z][a-z]+)\s+(Kingdom|Castle|Tower|Forest|Mountain|City|Village|Island|Bay|Harbor)\b
    <<B, Cap, Ws,
      Words(<<<<"K","i","n","g","d","o","m">>, <<"C","a","s","t","l","e">>, <<"T","o","w","e","r">>, <<"F","o","r","e","s","t">>, <<"M","o","u","n","t","a","i","n">>, <<"C","i","t","y">>,
              <<"V","i","l","l","a","g","e">>, <<"I","s","l","a","n","d">>, <<"B","a","y">>, <<"H","a","r","b","o","r">>>>),
      B>>,
    \* \b(?:the|a)\s+(lighthouse|tavern|inn|church|cathedral|library|market|square|bridge|gate|harbor|port)\b
    <<B, TheOrA, Ws,
      Words(<<<<"l","i","g","h","t","h","o","u","s","e">>, <<"t","a","v","e","r","n">>, <<"i","n","n">>, <<"c","h","u","r","c","h">>, <<"c","a","t","h","e","d","r","a","l">>, <<"l","i","b","r","a","r","y">>,
              <<"m","a","r","k","e","t">>, <<"s","q","u","a","r","e">>, <<"b","r","i","d","g","e">>, <<"g","a","t","e">>, <<"h","a","r","b","o","r">>, <<"p","o","r","t">>>>),
      B>> >>

EventPatterns == <<
    \* \b(Battle|War|Siege|Festival|Ceremony)\s+of\s+([A-Z][a-z]+)\b
    <<B, Words(<<<<"B","a","t","t","l","e">>, <<"W","a","r">>, <<"S","i","e","g","e">>, <<"F","e","s","t","i","v","a","l">>, <<"C","e","r","e","m","o","n","y">>>>), Ws,
      Lit(<<"o","f">>), Ws, Cap, B>> >>

\* self.story_patterns, in dict order
StoryPatterns == << <<"character", CharacterPatterns>>,
                    <<"object", ObjectPatterns>>,
                    <<"location", LocationPatterns>>,
                    <<"event", EventPatterns>> >>

\* the (entity_type, match.group(0)) pairs in the order the three loops visit them
RECURSIVE MatchesOfPatterns(_, _, _, _)
MatchesOfPatterns(entity_type, patterns, i, txt) ==
    IF i > Len(patterns) THEN <<>>
    ELSE LET ms == FindIter(patterns[i], txt)
         IN [k \in 1..Len(ms) |-> [entity_type |-> entity_type,
                                   group0 |-> Slice(txt, ms[k][1], ms[k][2])]]
            \o MatchesOfPatterns(entity_type, patterns, i + 1, txt)

RECURSIVE MatchesOfTypes(_, _)
MatchesOfTypes(t, txt) ==
    IF t > Len(StoryPatterns) THEN <<>>
    ELSE MatchesOfPatterns(StoryPatterns[t][1], StoryPatterns[t][2], 1, txt)
         \o MatchesOfTypes(t + 1, txt)

PatternMatches(txt) == MatchesOfTypes(1, txt)

\* the body of the innermost loop, folded over the matches
RECURSIVE PatternAdditions(_, _, _, _, _)
PatternAdditions(ents, nameset, counter, matches, k) ==
    IF k > Len(matches) THEN ents
    ELSE LET entity_name == Strip(matches[k].group0)
             norm == NormalizeName(entity_name)
             key == <<matches[k].entity_type, norm>>
         IN IF key \in nameset \/ Len(norm) < 2
            THEN PatternAdditions(ents, nameset, counter, matches, k + 1)
            ELSE PatternAdditions(
                     Append(ents, [id |-> counter,
                                   entityType |-> matches[k].entity_type,
                                   name |-> StripPossessive(entity_name),
                                   aliases |-> <<>>,
                                   version |-> 1,
                                   confidence |-> PATTERN_CONFIDENCE]),
                     nameset \cup {key}, counter + 1, matches, k + 1)

\* HybridNERExtractor.extract_entities after super().extract_entities returned ents
HybridPass(ents, txt) ==
    PatternAdditions(ents,
                     {<<ents[i].entityType, NormalizeName(ents[i].name)>> : i \in 1..Len(ents)},
                     Len(ents) + 1,
                     PatternMatches(txt), 1)

(***************************************************************************)
(* Inputs of the extraction: texts and the spans the NER pipeline reports  *)
(***************************************************************************)
MaxSpans == 2

Texts == { <<"A","l"," ","B","o","'","s">>,
           <<"A","l"," ","B","o"," ","s","a","i","d">>,
           <<"K","i","n","g"," ","t","h","e"," ","k","i","n","g">>,
           <<"B","o",RSQ,"s"," ","b","o">>,
           <<"A","l"," "," ","B","o">>,
           <<"A","'","s">>,
           <<"U",".","S",".">> }

RawLabels == {"PER", "LOC"}
Scores == {80, 90, 100}

\* offsets where an alphanumeric run starts / ends
RunStarts(txt) == {p \in 0..(Len(txt) - 1) :
                      IsAlnum(txt[p + 1]) /\ (p = 0 \/ ~IsAlnum(txt[p]))}
RunEnds(txt) == {q \in 1..Len(txt) :
                    IsAlnum(txt[q]) /\ (q = Len(txt) \/ ~IsAlnum(txt[q + 1]))}
\* spans from run to run, spans cut one character short on one side (subword
\* fragments), and spans that end after a full stop
SpanOffsets(txt) ==
    (RunStarts(txt) \X (RunEnds(txt) \cup {q \in 1..Len(txt) : txt[q] = "."}))
    \cup ({p + 1 : p \in RunStarts(txt)} \X RunEnds(txt))
    \cup (RunStarts(txt) \X {q - 1 : q \in RunEnds(txt)})

\* the results the pipeline may report for txt: person spans of any score,
\* location spans above the threshold
NerResults(txt) ==
    {[start |-> o[1], end |-> o[2], entity_group |-> g, score |-> c] :
        o \in {x \in SpanOffsets(txt) : x[1] < x[2]},
        g \in RawLabels,
        c \in Scores} \ {r \in [start : 0..Len(txt), end : 0..Len(txt),
                                entity_group : {"LOC"}, score : Scores \ {90}] : TRUE}

NoResult == [start |-> 0, end |-> 0, entity_group |-> "", score |-> 0]

(***************************************************************************)
(* Each specification runs one component; the others rest in these states  *)
(***************************************************************************)
NumTasks == 2
Tasks == 1..NumTasks

\* a task that is in no LLMManager call
NoCall == [op |-> "none", stream |-> FALSE, reset_context |-> FALSE, pc |-> "idle"]
\* what an executor job abandoned by wait_for may still be doing
OrphanPhases == {"reset", "call", "chat", "fallback"}
\* no self.llm.reset() has run yet
NoReset == [done |-> FALSE, holds |-> FALSE, running |-> 0]
\* llm_facts before "llm_facts = ..." has run
Unbound == [bound |-> FALSE, val |-> <<>>]

NerIdle ==
    /\ text = <<>>
    /\ by_key = <<>>
    /\ entity_counter = 1
    /\ nres = 0
    /\ last = NoResult
    /\ pc = "idle"
    /\ entities = <<>>
    /\ accepted = <<>>

LlmIdle ==
    /\ lockq = <<>>
    /\ calls = [t \in Tasks |-> NoCall]
    /\ thread = [t \in Tasks |-> "none"]
    /\ orphans = [ph \in OrphanPhases |-> 0]
    /\ loop_run = 0
    /\ ncalls = 0
    /\ kv = "clean"
    /\ stale_start = FALSE
    /\ last_reset = NoReset

FactIdle ==
    /\ ftext = <<>>
    /\ fents = <<>>
    /\ use_llm = FALSE
    /\ rules_fallback = FALSE
    /\ max_facts_per_entity = 0
    /\ fpc = "idle"
    /\ ei = 0
    /\ mention_sents = <<>>
    /\ si = 0
    /\ facts = <<>>
    /\ results = <<>>
    /\ llm_facts = Unbound
    /\ exc = ""
    /\ llm_log = <<>>

SentenceIdle ==
    /\ cuse_llm = FALSE
    /\ cpc = "idle"
    /\ ctext = <<>>
    /\ cdata = [kind |-> "null", str |-> <<>>, keys |-> <<>>, items |-> <<>>]
    /\ cfacts = <<>>
    /\ cexc = ""

EntityIdle ==
    /\ xpc = "idle"
    /\ candidates = <<>>
    /\ vi = 0
    /\ validated = <<>>
    /\ ci = 0
    /\ raw_entities = <<>>
    /\ formatted_entities = <<>>
    /\ vout = <<>>
    /\ cout = <<>>
    /\ bi = 0
    /\ batch = <<>>
    /\ xlog = <<>>

NoOp == [op |-> "none", given |-> 0, id |-> 0]

StoreIdle ==
    /\ store_entities = <<>>
    /\ disk = <<>>
    /\ nops = 0
    /\ returned_log = <<>>
    /\ api_only = TRUE
    /\ last_op = NoOp

SplitIdle ==
    /\ split_text = <<>>
    /\ split_pc = "idle"
    /\ split_sentences = <<>>

(***************************************************************************)
(* The extraction as a state machine                                       *)
(***************************************************************************)
InitNER ==
    /\ LlmIdle
    /\ FactIdle
    /\ SentenceIdle
    /\ EntityIdle
    /\ StoreIdle
    /\ SplitIdle
    /\ text \in Texts
    /\ by_key = <<>>
    /\ entity_counter = 1
    /\ nres = 0
    /\ last = NoResult
    /\ pc = "loop"
    /\ entities = <<>>
    /\ accepted = <<>>

\* one iteration of "for result in ner_results"
NerLoop ==
    /\ pc = "loop"
    /\ nres < MaxSpans
    /\ \E result \in NerResults(text) :
          /\ LET r == LoopBody(by_key, entity_counter, text, result)
             IN /\ by_key' = r.by_key
                /\ entity_counter' = r.entity_counter
          /\ last' = result
          /\ accepted' = IF Accepted(text, result)
                          THEN Append(accepted, Occurrence(text, result)) ELSE accepted
    /\ nres' = nres + 1
    /\ UNCHANGED <<text, pc, entities, llmVars, factVars, sentVars, entVars, storeVars, splitVars>>

\* the loop is exhausted: surname consolidation, finalization, return
NerReturn ==
    /\ pc = "loop"
    /\ by_key' = Consolidate(by_key)
    /\ entities' = Finalize(by_key')
    /\ last' = NoResult
    /\ pc' = "ner_done"
    /\ UNCHANGED <<text, entity_counter, nres, accepted, llmVars, factVars, sentVars, entVars, storeVars, splitVars>>

\* HybridNERExtractor.extract_entities: the pattern pass over the NER result
HybridReturn ==
    /\ pc = "ner_done"
    /\ entities' = HybridPass(entities, text)
    /\ pc' = "hybrid_done"
    /\ UNCHANGED <<text, by_key, entity_counter, nres, last, accepted, llmVars, factVars, sentVars, entVars, storeVars, splitVars>>

NextNER == NerLoop \/ NerReturn \/ HybridReturn

SpecNER == InitNER /\ [][NextNER]_vars

(***************************************************************************)
(* Properties of the entity resolver                                       *)
(***************************************************************************)
Returned == pc \in {"ner_done", "hybrid_done"}
Indices == 1..Len(entities)

\* the dedup key as the data model states it: lowercased, possessive-stripped,
\* whitespace-collapsed name, with the entity type
DedupKey(e) == <<e.entityType, LowerStr(Strip(CollapseWs(StripPossessive(e.name))))>>

\* C1: the list returned by one extraction call (NER-only and hybrid alike) holds
\* no two entities with the same (entityType, normalized name) key.
C1_NoDuplicateKeys ==
    Returned => \A i, j \in Indices : i # j => DedupKey(entities[i]) # DedupKey(entities[j])

\* a hybrid call in which a repeated span was merged by key and a pattern match
\* was skipped because the NER pass already held its key
C1_Witness ==
    /\ pc = "hybrid_done"
    /\ Len(accepted) = 2
    /\ LabelMapping(accepted[1].entity_group) = LabelMapping(accepted[2].entity_group)
    /\ NormalizeName(EntityName(text, accepted[1])) = NormalizeName(EntityName(text, accepted[2]))
    /\ Len(entities) = 1
    /\ entities[1].version = 2
    /\ PatternMatches(text) # <<>>

\* C6: within the list returned by one extraction call (NER-only or hybrid) all
\* entity ids are pairwise distinct.
C6_DistinctIds ==
    Returned => \A i, j \in Indices : i # j => entities[i].id # entities[j].id

TokenCount(name) == Len(SplitWs(name))
LastToken(name) == LowerStr(SplitWs(name)[TokenCount(name)])
\* the display name of an accepted span
SpanName(r) == Strip(StripPossessive(EntityName(text, r)))
IsCharacterSpan(r) == LabelMapping(r.entity_group) = "character"
AcceptedCharacterSpans == {accepted[k] : k \in {k \in 1..Len(accepted) : IsCharacterSpan(accepted[k])}}
\* the accepted character spans whose name ends in the token s
SurnameGroup(s) == {r \in AcceptedCharacterSpans : LastToken(SpanName(r)) = s}
CharactersNamed(s) ==
    {i \in Indices : entities[i].entityType = "character" /\ LastToken(entities[i].name) = s}

\* C7: when the accepted character spans include a single-token name S and a
\* multi-token name ending in S (case-insensitive), the resolver returns exactly one
\* character entity for that surname; its name is a multi-token form, its confidence
\* is the maximum of the merged confidences and S is among its aliases.
C7_SurnameMerge ==
    pc = "ner_done" =>
        \A a, b \in AcceptedCharacterSpans :
            (/\ TokenCount(SpanName(a)) = 1
             /\ TokenCount(SpanName(b)) > 1
             /\ LastToken(SpanName(b)) = LowerStr(SpanName(a)))
            => /\ Cardinality(CharactersNamed(LastToken(SpanName(a)))) = 1
               /\ \A i \in CharactersNamed(LastToken(SpanName(a))) :
                     /\ TokenCount(entities[i].name) > 1
                     /\ \E m \in SurnameGroup(LastToken(SpanName(a))) :
                           entities[i].name = SpanName(m)
                     /\ entities[i].confidence =
                            MaxOf({r.score : r \in SurnameGroup(LastToken(SpanName(a)))})
                     /\ \E k \in 1..Len(entities[i].aliases) :
                           entities[i].aliases[k] = SpanName(a)

\* the short form was seen first and with the higher confidence
C7_Witness ==
    /\ pc = "ner_done"
    /\ Len(accepted) = 2
    /\ IsCharacterSpan(accepted[1]) /\ IsCharacterSpan(accepted[2])
    /\ TokenCount(SpanName(accepted[1])) = 1
    /\ TokenCount(SpanName(accepted[2])) > 1
    /\ LastToken(SpanName(accepted[2])) = LowerStr(SpanName(accepted[1]))
    /\ accepted[1].score > accepted[2].score
    /\ Len(entities) = 1

\* C8: the list returned by one hybrid call never holds two character entities of
\* which one name is a single token and the other a multi-token name ending in
\* that token (case-insensitive).
C8_NoSurnamePairAfterHybrid ==
    pc = "hybrid_done" =>
        ~ \E i, j \in Indices :
              /\ entities[i].entityType = "character"
              /\ entities[j].entityType = "character"
              /\ TokenCount(entities[i].name) = 1
              /\ TokenCount(entities[j].name) > 1
              /\ LastToken(entities[j].name) = LowerStr(entities[i].name)

\* the character before start, or the character at end, is alphanumeric
InsideAlnumRun(txt, start, end) ==
    \/ start > 0 /\ IsAlnum(txt[start])
    \/ end < Len(txt) /\ IsAlnum(txt[end + 1])

\* C9: a loop iteration over a span whose preceding character or whose character at
\* end is alphanumeric creates no entity, adds no alias and bumps no version,
\* whatever the confidence.
C9_NonBoundaryRejected ==
    [][(pc = "loop" /\ nres' = nres + 1 /\ InsideAlnumRun(text, last'.start, last'.end))
        => (by_key' = by_key /\ entity_counter' = entity_counter)]_vars

\* a fragment reported with confidence 1.0 after an entity was created
C9_Witness ==
    /\ pc = "loop"
    /\ nres = 2
    /\ InsideAlnumRun(text, last.start, last.end)
    /\ last.end - last.start >= 2
    /\ \A i \in (last.start + 1)..last.end : IsAlnum(text[i])
    /\ last.score = 100
    /\ Len(by_key) = 1

\* the dedup keys of the accepted spans
AcceptedKeys == {accepted[j].key : j \in 1..Len(accepted)}
\* the positions in accepted of the occurrences of key k
OccurrencesOf(k) == {j \in 1..Len(accepted) : accepted[j].key = k}
\* the first accepted span with key k
FirstOfKey(k) == accepted[MinOf(OccurrencesOf(k))]
\* the surface form ends in 's or in U+2019 s
EndsInPossessive(s) == Len(s) >= 2 /\ s[Len(s)] = "s" /\ s[Len(s) - 1] \in {"'", RSQ}

\* C15: canonicalization removes only a trailing possessive marker: an entity the
\* NER resolver returns whose key was first seen in a surface form that does not
\* end in 's or U+2019 s is named by that surface form, casing and inner
\* apostrophes intact, and accepted spans with n distinct keys yield n entities.
C15_OnlyTrailingPossessiveRemoved ==
    pc = "ner_done" =>
        /\ \A i \in Indices :
              LET surface == EntityName(text, FirstOfKey(by_key[i].key))
              IN ~EndsInPossessive(surface) => entities[i].name = surface
        /\ Len(entities) = Cardinality(AcceptedKeys)

\* the entity of key k as the loop created it: its name and its place in by_key
KeyName(k) == FirstOfKey(k).form
CreatedAt(k) == MinOf(OccurrencesOf(k))
\* the keys of the character entities whose name has a last token
CharacterKeys == {k \in AcceptedKeys : k[1] = "character" /\ TokenCount(KeyName(k)) > 0}
\* the character entities sharing the last token of k
Sharing(k) == {m \in CharacterKeys : LastToken(KeyName(m)) = LastToken(KeyName(k))}
\* k has the most tokens of its group, and is the earliest created of those
Survives(k) ==
    \A m \in Sharing(k) \ {k} :
        \/ TokenCount(KeyName(m)) < TokenCount(KeyName(k))
        \/ TokenCount(KeyName(m)) = TokenCount(KeyName(k)) /\ CreatedAt(k) < CreatedAt(m)
\* the keys left in by_key, and the entity returned for a key
ResultKeys == {by_key[i].key : i \in 1..Len(by_key)}
ResultOf(k) == entities[KeyIndex(by_key, k)]

\* C16: after surname consolidation at most one character entity survives per
\* lowercased last token; it is the one with the most tokens among those sharing
\* the token, the earliest created on a tie; the others sharing the token are
\* dropped; no other entity is merged or dropped.
C16_SurnameSurvivor ==
    pc = "ner_done" =>
        /\ \A k \in CharacterKeys : k \in ResultKeys <=> Survives(k)
        /\ \A k \in CharacterKeys \cap ResultKeys : ResultOf(k).name = KeyName(k)
        /\ \A i, j \in Indices :
              (/\ entities[i].entityType = "character"
               /\ entities[j].entityType = "character"
               /\ TokenCount(entities[i].name) > 0
               /\ TokenCount(entities[j].name) > 0
               /\ LastToken(entities[i].name) = LastToken(entities[j].name)) => i = j
        /\ \A k \in AcceptedKeys \ CharacterKeys :
              /\ k \in ResultKeys
              /\ ResultOf(k).version = Cardinality(OccurrencesOf(k))
              /\ ResultOf(k).aliases = Sorted({accepted[j].form : j \in OccurrencesOf(k)}
                                                  \ {KeyName(k)})

\* two names of two tokens share the last token: the one created first survives,
\* beside a location that is left alone
C16_Witness ==
    /\ pc = "ner_done"
    /\ Len(accepted) = 2
    /\ Cardinality(CharacterKeys) = 2
    /\ TokenCount(KeyName(accepted[1].key)) = TokenCount(KeyName(accepted[2].key))
    /\ Sharing(accepted[1].key) = CharacterKeys
    /\ Len(entities) = 1
    /\ entities[1].name = SpanName(accepted[1])
    /\ entities[1].name # SpanName(accepted[2])

\* the keys whose entities end up in the entity of the surviving key k: its own
\* and, for a character, those of the entities consolidated into it
MergedKeys(k) == IF k \in CharacterKeys THEN Sharing(k) ELSE {k}
MergedOccurrences(k) == UNION {OccurrencesOf(m) : m \in MergedKeys(k)}
\* the version of no entity of by_key goes down in a step
VersionKept ==
    \A i \in 1..Len(by_key) :
        HasKey(by_key', by_key[i].key) =>
            by_key'[KeyIndex(by_key', by_key[i].key)].version >= by_key[i].version

RECURSIVE ResolveFrom(_, _, _, _, _)
ResolveFrom(txt, rs, k, bk, counter) ==
    IF k > Len(rs) THEN [by_key |-> bk, entity_counter |-> counter]
    ELSE LET r == LoopBody(bk, counter, txt, rs[k])
         IN ResolveFrom(txt, rs, k + 1, r.by_key, r.entity_counter)
Resolve(txt, rs) == ResolveFrom(txt, rs, 1, <<>>, 1)

\* C18: a span rejected by a filter of the resolver leaves the accumulated map
\* unchanged: the map, the id counter and the entities returned (ids, aliases,
\* confidences, versions) are those of the run over the accepted spans alone, and
\* every entity the NER resolver returns has confidence >= 0.85.
C18_RejectedSpansLeaveNoTrace ==
    LET alone == Resolve(text, accepted)
    IN /\ pc = "loop" =>
             /\ by_key = alone.by_key
             /\ entity_counter = alone.entity_counter
       /\ pc = "ner_done" =>
             /\ entities = Finalize(Consolidate(alone.by_key))
             /\ \A i \in Indices : entities[i].confidence >= NER_THRESHOLD

\* an accepted span, then a well-formed span refused for its confidence alone
C18_Witness ==
    /\ pc = "loop"
    /\ nres = 2
    /\ Len(accepted) = 1
    /\ <<last.start, last.end>> # <<accepted[1].start, accepted[1].end>>
    /\ last.score < NER_THRESHOLD
    /\ Accepted(text, [last EXCEPT !.score = NER_THRESHOLD])
    /\ Len(by_key) = 1
    /\ entity_counter = 2

\* the canonical forms of the occurrences merged into the entity of key k
MergedForms(k) == {accepted[j].form : j \in MergedOccurrences(k)}

MaxCalls == 3

\* the phases in which a job executes the runtime
Running == {"call", "chat", "fallback"}

\* the first phase of the job a call submits
FirstPhase(c) ==
    CASE c.op = "generate" /\ ~c.stream /\ c.reset_context -> "reset"
      [] c.op = "generate_json" -> "chat"
      [] OTHER -> "call"

\* the phase that follows a runtime invocation that returned text (ok) or did not
NextPhase(ph, ok) ==
    CASE ph = "call" -> IF ok THEN "done" ELSE "failed"
      [] ph = "chat" -> IF ok THEN "done" ELSE "fallback"
      [] ph = "fallback" -> IF ok THEN "done" ELSE "failed"

\* the calls made inside "async with self._lock"
UnderLock(c) == c.op \in {"generate", "generate_json"}
\* the calls that await their job inside asyncio.wait_for
WithTimeout(c) == (c.op = "generate" /\ ~c.stream) \/ c.op \in {"generate_json", "health_check"}
\* the calls that iterate a stream
Streams(c) == (c.op = "generate" /\ c.stream) \/ c.op = "query_stream"

\* leaving "async with self._lock"
ReleasedBy(c, q) == IF UnderLock(c) THEN Tail(q) ELSE q

\* the number of invocations of the runtime executing in this state
NumExecuting ==
    Cardinality({t \in Tasks : thread[t] \in Running})
    + orphans["call"] + orphans["chat"] + orphans["fallback"]
    + (IF loop_run # 0 THEN 1 ELSE 0)

\* a job is submitted in phase ph: in a Running phase the invocation begins on the
\* state the runtime is in
StartsIn(ph) ==
    IF ph \in Running
    THEN /\ kv' = "used"
         /\ stale_start' = (stale_start \/ kv = "stale")
    ELSE UNCHANGED <<kv, stale_start>>

\* self.llm.reset() runs; holds: its caller is inside "async with self._lock";
\* running: the invocations executing meanwhile
ResetRuns(holds, running) ==
    last_reset' = [done |-> TRUE, holds |-> holds, running |-> running]

\* the except handlers, run after "async with" released the lock: generate calls
\* self.reset_context() while executing invocations still run; the other calls do
\* not reset, and the state the call left (if left) stays
HandlerReset(c, left, executing) ==
    IF c.op = "generate"
    THEN /\ kv' = "clean"
         /\ ResetRuns(FALSE, executing)
    ELSE /\ kv' = (IF left THEN "stale" ELSE kv)
         /\ UNCHANGED last_reset

\* task t enters "async with self._lock" for the call c and, once it holds the
\* lock, submits the job
LockedCall(t, c) ==
    /\ calls[t] = NoCall
    /\ loop_run = 0
    /\ ncalls < MaxCalls
    /\ ncalls' = ncalls + 1
    /\ IF lockq = <<>>
       THEN /\ lockq' = <<t>>
            /\ calls' = [calls EXCEPT ![t] = [c EXCEPT !.pc = "await_exec"]]
            /\ thread' = [thread EXCEPT ![t] = FirstPhase(c)]
            /\ StartsIn(FirstPhase(c))
       ELSE /\ lockq' = Append(lockq, t)
            /\ calls' = [calls EXCEPT ![t] = [c EXCEPT !.pc = "wait_lock"]]
            /\ UNCHANGED <<thread, kv, stale_start>>
    /\ UNCHANGED <<orphans, loop_run, last_reset, nerVars, factVars, sentVars, entVars, storeVars, splitVars>>

\* LLMManager.generate(prompt, stream=..., reset_context=...)
Generate(t) ==
    \E stream, reset_context \in BOOLEAN :
        LockedCall(t, [op |-> "generate", stream |-> stream,
                       reset_context |-> reset_context, pc |-> "idle"])

\* LLMManager.generate_json(prompt)
GenerateJson(t) ==
    LockedCall(t, [op |-> "generate_json", stream |-> FALSE,
                   reset_context |-> FALSE, pc |-> "idle"])

\* a waiter woken by the release of the lock: it holds the lock and submits
LockWake(t) ==
    /\ calls[t].pc = "wait_lock"
    /\ lockq # <<>> /\ Head(lockq) = t
    /\ loop_run = 0
    /\ calls' = [calls EXCEPT ![t].pc = "await_exec"]
    /\ thread' = [thread EXCEPT ![t] = FirstPhase(calls[t])]
    /\ StartsIn(FirstPhase(calls[t]))
    /\ UNCHANGED <<lockq, orphans, loop_run, ncalls, last_reset, nerVars, factVars, sentVars, entVars, storeVars, splitVars>>

\* LLMManager.health_check(): the probe is submitted without the lock
HealthCheck(t) ==
    /\ calls[t] = NoCall
    /\ loop_run = 0
    /\ ncalls < MaxCalls
    /\ ncalls' = ncalls + 1
    /\ \E model_exists \in BOOLEAN :
          IF model_exists
          THEN /\ calls' = [calls EXCEPT ![t] = [op |-> "health_check", stream |-> FALSE,
                                                 reset_context |-> FALSE, pc |-> "await_exec"]]
               /\ thread' = [thread EXCEPT ![t] = "call"]
               /\ StartsIn("call")
          ELSE UNCHANGED <<calls, thread, kv, stale_start>>
    /\ UNCHANGED <<lockq, orphans, loop_run, last_reset, nerVars, factVars, sentVars, entVars, storeVars, splitVars>>

\* RAGPipeline.query_stream(): iterates LLMManager._generate_stream directly
QueryStream(t) ==
    /\ calls[t] = NoCall
    /\ loop_run = 0
    /\ ncalls < MaxCalls
    /\ ncalls' = ncalls + 1
    /\ calls' = [calls EXCEPT ![t] = [op |-> "query_stream", stream |-> TRUE,
                                      reset_context |-> FALSE, pc |-> "await_exec"]]
    /\ thread' = [thread EXCEPT ![t] = "call"]
    /\ StartsIn("call")
    /\ UNCHANGED <<lockq, orphans, loop_run, last_reset, nerVars, factVars, sentVars, entVars, storeVars, splitVars>>

\* EntityExtractor.extract_entities, "self.llm_manager.reset_context()" before a
\* batch: a direct call from the coroutine, outside the lock
BatchReset(t) ==
    /\ calls[t] = NoCall
    /\ loop_run = 0
    /\ kv' = "clean"
    /\ ResetRuns(FALSE, NumExecuting)
    /\ UNCHANGED <<lockq, calls, thread, orphans, loop_run, ncalls, stale_start,
                   nerVars, factVars, sentVars, entVars, storeVars, splitVars>>

\* pool thread: self.llm.reset() of _run_inference returns (or its error is logged)
\* and self.llm(...) begins on the state the reset left
ThreadReset(t) ==
    /\ thread[t] = "reset"
    /\ thread' = [thread EXCEPT ![t] = "call"]
    /\ kv' = "used"
    /\ ResetRuns(TRUE, NumExecuting)
    /\ UNCHANGED <<lockq, calls, orphans, loop_run, ncalls, stale_start,
                   nerVars, factVars, sentVars, entVars, storeVars, splitVars>>

\* pool thread: the runtime invocation of the job returns or raises
ThreadEnd(t) ==
    /\ thread[t] \in Running
    /\ \E ok \in BOOLEAN :
          /\ thread' = [thread EXCEPT ![t] = NextPhase(thread[t], ok)]
          /\ kv' = IF NextPhase(thread[t], ok) = "failed" THEN "stale" ELSE kv
    /\ UNCHANGED <<lockq, calls, orphans, loop_run, ncalls, stale_start, last_reset,
                   nerVars, factVars, sentVars, entVars, storeVars, splitVars>>

\* pool thread of an abandoned job: it runs on to its end, its self.llm.reset()
\* included; what it writes is state of a timed-out call
OrphanStep ==
    /\ \E ph \in OrphanPhases :
          /\ orphans[ph] > 0
          /\ \E ok \in BOOLEAN :
                LET np == IF ph = "reset" THEN "call" ELSE NextPhase(ph, ok)
                IN orphans' = [q \in OrphanPhases |->
                                  orphans[q] - (IF q = ph THEN 1 ELSE 0)
                                             + (IF q = np THEN 1 ELSE 0)]
          /\ IF ph = "reset" THEN ResetRuns(FALSE, NumExecuting) ELSE UNCHANGED last_reset
    /\ kv' = "stale"
    /\ UNCHANGED <<lockq, calls, thread, loop_run, ncalls, stale_start,
                   nerVars, factVars, sentVars, entVars, storeVars, splitVars>>

\* the awaited job returned: generate / generate_json / health_check return;
\* _generate_stream starts "for chunk in stream" on the event-loop thread
AwaitDone(t) ==
    /\ calls[t].pc = "await_exec"
    /\ thread[t] = "done"
    /\ loop_run = 0
    /\ thread' = [thread EXCEPT ![t] = "none"]
    /\ IF Streams(calls[t])
       THEN /\ calls' = [calls EXCEPT ![t].pc = "streaming"]
            /\ loop_run' = t
            /\ UNCHANGED lockq
       ELSE /\ calls' = [calls EXCEPT ![t] = NoCall]
            /\ lockq' = ReleasedBy(calls[t], lockq)
            /\ UNCHANGED loop_run
    /\ UNCHANGED <<orphans, ncalls, kv, stale_start, last_reset, nerVars, factVars, sentVars, entVars, storeVars, splitVars>>

\* the awaited job raised: the lock is released, generate calls reset_context()
\* and re-raises, generate_json and query_stream re-raise, health_check returns False
AwaitFailed(t) ==
    /\ calls[t].pc = "await_exec"
    /\ thread[t] = "failed"
    /\ loop_run = 0
    /\ thread' = [thread EXCEPT ![t] = "none"]
    /\ calls' = [calls EXCEPT ![t] = NoCall]
    /\ lockq' = ReleasedBy(calls[t], lockq)
    /\ HandlerReset(calls[t], TRUE, NumExecuting)
    /\ UNCHANGED <<orphans, loop_run, ncalls, stale_start, nerVars, factVars, sentVars, entVars, storeVars, splitVars>>

\* wait_for expires and the call ends still holding the lock (variant)
TimeoutKeepsLock(t) ==
    /\ calls[t].pc = "await_exec"
    /\ WithTimeout(calls[t])
    /\ thread[t] \in OrphanPhases
    /\ loop_run = 0
    /\ orphans' = [orphans EXCEPT ![thread[t]] = @ + 1]
    /\ thread' = [thread EXCEPT ![t] = "none"]
    /\ calls' = [calls EXCEPT ![t] = NoCall]
    /\ lockq' = lockq
    /\ HandlerReset(calls[t], thread[t] \in Running, NumExecuting)
    /\ UNCHANGED <<loop_run, ncalls, stale_start, nerVars, factVars, sentVars, entVars, storeVars, splitVars>>

\* asyncio.wait_for expires: the awaiting future is cancelled, the pool thread is
\* not; the lock is released, generate calls reset_context() and re-raises,
\* generate_json re-raises, health_check returns False
Timeout(t) ==
    /\ calls[t].pc = "await_exec"
    /\ WithTimeout(calls[t])
    /\ thread[t] \in OrphanPhases
    /\ loop_run = 0
    /\ orphans' = [orphans EXCEPT ![thread[t]] = @ + 1]
    /\ thread' = [thread EXCEPT ![t] = "none"]
    /\ calls' = [calls EXCEPT ![t] = NoCall]
    /\ lockq' = ReleasedBy(calls[t], lockq)
    /\ HandlerReset(calls[t], thread[t] \in Running, NumExecuting)
    /\ UNCHANGED <<loop_run, ncalls, stale_start, nerVars, factVars, sentVars, entVars, storeVars, splitVars>>

\* the consumer of query_stream asks for the next token: the stream computes
\* its next chunk on the event-loop thread
StreamResume(t) ==
    /\ calls[t].pc = "streaming"
    /\ loop_run = 0
    /\ loop_run' = t
    /\ UNCHANGED <<lockq, calls, thread, orphans, ncalls, kv, stale_start, last_reset,
                   nerVars, factVars, sentVars, entVars, storeVars, splitVars>>

\* "for chunk in stream" leaves the event-loop thread: query_stream yields a
\* token to its consumer; the stream is exhausted or raises.  generate(stream=True)
\* appends tokens without leaving the thread, so it leaves only at the end.
StreamLeave(t) ==
    /\ loop_run = t
    /\ loop_run' = 0
    /\ \E out \in {"token", "exhausted", "error"} :
          /\ IF out = "token"
             THEN /\ calls[t].op = "query_stream"
                  /\ UNCHANGED <<calls, lockq>>
             ELSE /\ calls' = [calls EXCEPT ![t] = NoCall]
                  /\ lockq' = ReleasedBy(calls[t], lockq)
          /\ IF out = "error"
             THEN HandlerReset(calls[t], TRUE, NumExecuting - 1)
             ELSE UNCHANGED <<kv, last_reset>>
    /\ UNCHANGED <<thread, orphans, ncalls, stale_start, nerVars, factVars, sentVars, entVars, storeVars, splitVars>>

InitLLM == NerIdle /\ FactIdle /\ SentenceIdle /\ EntityIdle /\ StoreIdle /\ SplitIdle /\ LlmIdle

NextLLM ==
    \E t \in Tasks :
        \/ Generate(t)
        \/ GenerateJson(t)
        \/ LockWake(t)
        \/ HealthCheck(t)
        \/ QueryStream(t)
        \/ BatchReset(t)
        \/ ThreadReset(t)
        \/ ThreadEnd(t)
        \/ OrphanStep
        \/ AwaitDone(t)
        \/ AwaitFailed(t)
        \/ Timeout(t)
        \/ StreamResume(t)
        \/ StreamLeave(t)

SpecLLM == InitLLM /\ [][NextLLM]_vars

(***************************************************************************)
(* Properties of the serialization gate                                    *)
(***************************************************************************)
\* C2: in any interleaving of generate, generate_json, the streaming query path and
\* the health probe, timed-out calls included, at most one invocation of the
\* runtime is executing at any moment.
C2_AtMostOneInvocation == NumExecuting <= 1

\* C13: whenever a completion call (generate or generate_json) times out or raises,
\* the runtime's state is reset before the next invocation of the runtime begins:
\* no invocation ever begins on state left behind by a timed-out or failed call.
C13_ResetBeforeNextInvocation == ~stale_start

\* C20: every reset of the runtime's state is performed by the caller that holds
\* the serialization gate, and none executes while a generation (one abandoned
\* after a timeout included) is still running.
C20_ResetOnlyByGateHolder ==
    last_reset.done => (last_reset.holds /\ last_reset.running = 0)

\* the call a candidate's validation or classification makes:
\* generate(prompt, temperature=0.1, reset_context=True)
CandidateCall(c) == c.op = "generate" /\ ~c.stream /\ c.reset_context

\* C21: for every validate/classify call on a candidate the generation context is
\* reset before the generation starts (the job's first phase is the reset) and
\* again after the call ends, on success as on failure: when the call returns or
\* raises, the context is the one a reset leaves.
C21_ResetBeforeAndAfterCall ==
    [][\A t \in Tasks :
          /\ (CandidateCall(calls[t]) /\ thread[t] \notin Running /\ thread'[t] \in Running)
                => (thread[t] = "reset" /\ last_reset'.done /\ last_reset'.holds)
          /\ (CandidateCall(calls[t]) /\ calls[t].pc = "await_exec" /\ calls'[t] = NoCall)
                => kv' = "clean"]_vars


\* The event loop runs its ready coroutines in FIFO order, so a coroutine step
\* that is ready again and again is taken (strong fairness: a running stream
\* blocks the loop only while it computes a chunk); a pool thread runs on by
\* itself (weak fairness): self.llm.reset() returns and the inference call
\* returns or raises; an iteration on the loop thread ends.
FairLLM ==
    /\ SpecLLM
    /\ \A t \in Tasks :
          /\ WF_vars(ThreadReset(t))
          /\ WF_vars(ThreadEnd(t))
          /\ WF_vars(StreamLeave(t))
          /\ SF_vars(AwaitDone(t))
          /\ SF_vars(AwaitFailed(t))
          /\ SF_vars(LockWake(t))

Waiting(t) == calls[t].pc = "wait_lock"
HoldsGate(t) == lockq # <<>> /\ Head(lockq) = t /\ calls[t].pc \in {"await_exec", "streaming"}
InGate(t, q) == \E i \in 1..Len(q) : q[i] = t

\* C30: a generate or generate_json call that ends, by return, timeout or
\* exception, leaves the gate, and every caller waiting for the gate comes to
\* hold it
C30_GateReleasedAndAcquired ==
    /\ [][\A t \in Tasks :
            (UnderLock(calls[t]) /\ calls'[t] = NoCall) => ~InGate(t, lockq')]_vars
    /\ \A t \in Tasks : Waiting(t) ~> HoldsGate(t)

\* the holder's call timed out and left the gate: the caller that waited is
\* first in line
C30_Witness ==
    \E t \in Tasks :
        /\ Waiting(t)
        /\ lockq = <<t>>
        /\ ncalls = 2
        /\ \E ph \in Running : orphans[ph] > 0
        /\ \A u \in Tasks \ {t} : calls[u] = NoCall

(***************************************************************************)
(* fact_extractor.py: FactExtractor                                        *)
(***************************************************************************)
\* the match of [.!?](?:\s+|$) at offset p: its end offset, or -1
SentenceEndAt(s, p) ==
    IF p < Len(s) /\ s[p + 1] \in {".", "!", "?"}
    THEN IF WsRun(s, p + 1) > 0 THEN p + 1 + WsRun(s, p + 1)
         ELSE IF p + 1 = Len(s) THEN p + 1 ELSE -1
    ELSE -1

\* the loop without its "start = end" (line 236): every segment starts at 0
RECURSIVE SplitSentencesFromKeepStart(_, _, _)
SplitSentencesFromKeepStart(s, start, p) ==
    IF p >= Len(s)
    THEN IF start < Len(s) /\ Strip(Slice(s, start, Len(s))) # <<>>
         THEN <<[start |-> start, end |-> Len(s), text |-> Strip(Slice(s, start, Len(s)))]>>
         ELSE <<>>
    ELSE LET end == SentenceEndAt(s, p)
         IN IF end = -1 THEN SplitSentencesFromKeepStart(s, start, p + 1)
            ELSE (IF Strip(Slice(s, start, end)) # <<>>
                  THEN <<[start |-> start, end |-> end, text |-> Strip(Slice(s, start, end))]>>
                  ELSE <<>>) \o SplitSentencesFromKeepStart(s, start, end)

\* the loop over re.finditer in _split_sentences_with_spans, scanning from offset
\* p with the local start, then the tail after the loop
RECURSIVE SplitSentencesFrom(_, _, _)
SplitSentencesFrom(s, start, p) ==
    IF p >= Len(s)
    THEN IF start < Len(s) /\ Strip(Slice(s, start, Len(s))) # <<>>
         THEN <<[start |-> start, end |-> Len(s), text |-> Strip(Slice(s, start, Len(s)))]>>
         ELSE <<>>
    ELSE LET end == SentenceEndAt(s, p)
         IN IF end = -1 THEN SplitSentencesFrom(s, start, p + 1)
            ELSE (IF Strip(Slice(s, start, end)) # <<>>
                  THEN <<[start |-> start, end |-> end, text |-> Strip(Slice(s, start, end))]>>
                  ELSE <<>>) \o SplitSentencesFrom(s, end, end)

\* _split_sentences_with_spans(text): the sentences (start, end, sentence_text)
SplitSentencesWithSpans(s) == SplitSentencesFrom(s, 0, 0)

\* _build_sentence_index
BuildSentenceIndex(sentences) == sentences

\* w matches at offset p of s under re.IGNORECASE
HasAtIgnoreCase(s, p, w) ==
    /\ p + Len(w) <= Len(s)
    /\ \A i \in 1..Len(w) : ToLower(s[p + i]) = ToLower(w[i])

\* _name_patterns: the alternatives of the pattern, in order
NamePatterns(name, aliases) ==
    LET parts == SplitWs(Strip(name))
    IN <<name>>
       \o (IF Len(parts) >= 2 THEN <<parts[Len(parts)]>> ELSE <<>>)
       \o SelectSeq(aliases, LAMBDA a : a # <<>> /\ LowerStr(a) # LowerStr(name))

\* \b(?:v1|v2|...)(?:'s|’s)?\b matches at offset p of s
NameMatchAt(s, p, variants) ==
    /\ WordBoundary(s, p)
    /\ \E k \in 1..Len(variants) :
          LET q == p + Len(variants[k])
          IN /\ HasAtIgnoreCase(s, p, variants[k])
             /\ \/ /\ HasAtIgnoreCase(s, q, <<"'", "s">>) \/ HasAtIgnoreCase(s, q, <<RSQ, "s">>)
                   /\ WordBoundary(s, q + 2)
                \/ WordBoundary(s, q)

\* name_re.search(s)
NameSearch(s, variants) == \E p \in 0..Len(s) : NameMatchAt(s, p, variants)

\* _find_mention_sentences(name, sentences, aliases)
FindMentionSentences(name, sentences, aliases) ==
    SelectSeq(sentences, LAMBDA sn : NameSearch(sn.text, NamePatterns(name, aliases)))

\* _mk_fact; the confidence is in percent
MkFact(fact, source_text, s_start, s_end, time_id, confidence, method) ==
    [fact |-> fact,
     sourceText |-> source_text,
     evidence |-> [timeId |-> time_id, start |-> s_start, end |-> s_end],
     confidence |-> confidence,
     method |-> method]

LLM_CONFIDENCE == 80

(***************************************************************************)
(* The legacy rules (rules_fallback): _apposition, _possessive, _svo.      *)
(* The three patterns are compiled with re.IGNORECASE.  A pattern is a     *)
(* sequence of elements <<kind, arg>>:                                     *)
(*   <<"b", "">>         \b                                                *)
(*   <<"set", cls>>      one character of the class cls                    *)
(*   <<"ilit", w>>       the literal w, in either case                     *)
(*   <<"alt", alts>>     (?:a1|a2|...), each alternative a pattern         *)
(*   <<"rep", r>>        (?:body){min,max}, greedy                         *)
(*   <<"lazy", r>>       (?:body){min,max}?, lazy                          *)
(*   <<"open", g>>, <<"close", g>>   the bounds of the named group g       *)
(* RxMatch gives the match re finds at offset p, with its groups.          *)
(***************************************************************************)
InClass(cls, c) ==
    CASE cls = "alpha" -> IsAlpha(c)                         \* [A-Z], [a-z]
      [] cls = "word-" -> IsWordChar(c) \/ c = "-"           \* [\w\-]
      [] cls = "space" -> IsSpace(c)                         \* \s
      [] cls = "apos" -> c \in {RSQ, "'"}                    \* [’']
      [] cls = "notcomma" -> c # ","                         \* [^,]
      [] cls = "notpunct" -> c \notin {",", ".", ";", ":"}   \* [^,.;:]

RxGroups == {"name", "role", "verb", "object"}
NoGroups == [g \in RxGroups |-> <<-1, -1>>]
RxFail == [ok |-> FALSE, end |-> -1, groups |-> NoGroups]
\* the max of a repetition without upper bound
Unbounded == 0 - 1

RxB == <<"b", "">>
RxSet(cls) == <<"set", cls>>
RxLit(w) == <<"ilit", w>>
RxAlt(alts) == <<"alt", alts>>
RxRep(body, min, max) == <<"rep", [body |-> body, min |-> min, max |-> max]>>
RxLazy(body, min, max) == <<"lazy", [body |-> body, min |-> min, max |-> max]>>
RxStar(body) == RxRep(body, 0, Unbounded)
RxPlus(body) == RxRep(body, 1, Unbounded)
RxOpt(body) == RxRep(body, 0, 1)
RxOpen(g) == <<"open", g>>
RxClose(g) == <<"close", g>>
RxWords(ws) == RxAlt([i \in 1..Len(ws) |-> <<RxLit(ws[i])>>])
RxWs == RxPlus(<<RxSet("space")>>)

RECURSIVE RxMatch(_, _, _, _)
RECURSIVE RxAlts(_, _, _, _, _, _)
RxMatch(elems, s, p, groups) ==
    IF elems = <<>> THEN [ok |-> TRUE, end |-> p, groups |-> groups]
    ELSE LET e == Head(elems)
             rest == Tail(elems)
             once == [body |-> e[2].body, min |-> e[2].min - 1,
                      max |-> IF e[2].max = Unbounded THEN Unbounded ELSE e[2].max - 1]
         IN CASE e[1] = "b" ->
                   IF WordBoundary(s, p) THEN RxMatch(rest, s, p, groups) ELSE RxFail
              [] e[1] = "set" ->
                   IF p < Len(s) /\ InClass(e[2], s[p + 1])
                   THEN RxMatch(rest, s, p + 1, groups) ELSE RxFail
              [] e[1] = "ilit" ->
                   IF p + Len(e[2]) <= Len(s)
                      /\ LowerStr(SubSeq(s, p + 1, p + Len(e[2]))) = LowerStr(e[2])
                   THEN RxMatch(rest, s, p + Len(e[2]), groups) ELSE RxFail
              [] e[1] = "alt" -> RxAlts(e[2], 1, rest, s, p, groups)
              [] e[1] = "rep" ->
                   LET more == IF e[2].max # 0
                               THEN RxMatch(e[2].body \o <<<<"rep", once>>>> \o rest, s, p, groups)
                               ELSE RxFail
                   IN IF more.ok THEN more
                      ELSE IF e[2].min <= 0 THEN RxMatch(rest, s, p, groups) ELSE RxFail
              [] e[1] = "lazy" ->
                   LET stop == IF e[2].min <= 0 THEN RxMatch(rest, s, p, groups) ELSE RxFail
                   IN IF stop.ok THEN stop
                      ELSE IF e[2].max # 0
                           THEN RxMatch(e[2].body \o <<<<"lazy", once>>>> \o rest, s, p, groups)
                           ELSE RxFail
              [] e[1] = "open" ->
                   RxMatch(rest, s, p, [groups EXCEPT ![e[2]] = <<p, @[2]>>])
              [] e[1] = "close" ->
                   RxMatch(rest, s, p, [groups EXCEPT ![e[2]] = <<@[1], p>>])

RxAlts(alts, j, rest, s, p, groups) ==
    IF j > Len(alts) THEN RxFail
    ELSE LET r == RxMatch(alts[j] \o rest, s, p, groups)
         IN IF r.ok THEN r ELSE RxAlts(alts, j + 1, rest, s, p, groups)

\* pattern.finditer(s): the non-overlapping matches, each [start, end, groups]
RECURSIVE RxFindIterFrom(_, _, _)
RxFindIterFrom(elems, s, p) ==
    IF p > Len(s) THEN <<>>
    ELSE LET m == RxMatch(elems, s, p, NoGroups)
         IN IF ~m.ok THEN RxFindIterFrom(elems, s, p + 1)
            ELSE <<[start |-> p, end |-> m.end, groups |-> m.groups]>>
                 \o RxFindIterFrom(elems, s, IF m.end > p THEN m.end ELSE p + 1)

RxFindIter(elems, s) == RxFindIterFrom(elems, s, 0)

\* m.group(g)
Group(s, m, g) == Slice(s, m.groups[g][1], m.groups[g][2])

Particles == <<<<"v","a","n">>, <<"v","o","n">>, <<"d","e">>, <<"d","e","l">>, <<"d","a">>, <<"d","i">>, <<"l","a">>, <<"l","e">>>>
Articles == <<<<"t","h","e">>, <<"a">>, <<"a","n">>>>
Verbs == <<<<"i","s">>, <<"w","a","s">>, <<"l","e","a","d","s">>, <<"l","e","d">>, <<"h","o","l","d","s">>, <<"h","e","l","d">>, <<"o","w","n","s">>, <<"o","w","n","e","d">>,
           <<"b","u","i","l","t">>, <<"b","u","i","l","d","s">>, <<"f","o","u","n","d">>, <<"f","i","n","d","s">>, <<"d","i","s","c","o","v","e","r","e","d">>, <<"d","i","s","c","o","v","e","r","s">>,
           <<"g","u","a","r","d","s">>, <<"g","u","a","r","d","e","d">>, <<"s","a","i","l","s">>, <<"s","a","i","l","e","d">>, <<"m","a","n","a","g","e","s">>, <<"m","a","n","a","g","e","d">>,
           <<"d","i","r","e","c","t","s">>, <<"d","i","r","e","c","t","e","d">>>>

\* [A-Z][\w\-]*
NameHead == <<RxSet("alpha"), RxStar(<<RxSet("word-")>>)>>
\* \s+[A-Z][\w\-]+
NameMore == <<RxWs, RxSet("alpha"), RxPlus(<<RxSet("word-")>>)>>
\* (?:\s+(?:van|von|de|del|da|di|la|le))?
ParticleOpt == RxOpt(<<RxWs, RxWords(Particles)>>)

\* self._apposition
Apposition ==
    <<RxB, RxOpen("name")>> \o NameHead \o <<ParticleOpt, RxOpt(NameMore), RxClose("name"),
      RxStar(<<RxSet("space")>>), RxLit(<<",">>), RxWs,
      RxOpen("role"), RxWords(Articles), RxWs, RxSet("alpha"),
      RxLazy(<<RxSet("notcomma")>>, 1, Unbounded), RxClose("role"), RxLit(<<",">>)>>

\* self._possessive
Possessive ==
    <<RxB, RxOpen("name")>> \o NameHead \o <<RxStar(NameMore), RxClose("name"),
      RxSet("apos"), RxLit(<<"s">>), RxWs,
      RxOpen("object"),
      RxPlus(<<RxPlus(<<RxSet("alpha")>>), RxAlt(<< <<RxWs>>, <<RxLit(<<"-">>)>> >>)>>),
      RxPlus(<<RxSet("alpha")>>), RxClose("object")>>

\* self._svo
Svo ==
    <<RxB, RxOpen("name")>> \o NameHead \o <<ParticleOpt, RxStar(NameMore), RxClose("name"),
      RxWs, RxOpen("verb"), RxWords(Verbs), RxClose("verb"), RxWs,
      RxOpen("object"), RxRep(<<RxSet("notpunct")>>, 1, 60), RxClose("object")>>

\* str.strip(chars)
StripChars(s, chars) ==
    LET ns == {i \in 1..Len(s) : s[i] \notin chars}
    IN IF ns = {} THEN <<>> ELSE SubSeq(s, MinOf(ns), MaxOf(ns))

\* canon of _name_matches: strip punctuation and quotes, a final 's, lowercase
Canon(s) ==
    LET t == StripChars(s, {" ", ",", ".", ";", ":", "!", "?", DQ, LDQ, RDQ, "'", RSQ})
        n == Len(t)
    IN LowerStr(IF n >= 2 /\ t[n] = "s" /\ t[n - 1] \in {"'", RSQ}
                THEN SubSeq(t, 1, n - 2) ELSE t)

\* _name_matches(target, text_name, aliases)
NameMatches(target, text_name, aliases) ==
    LET parts == SplitWs(Strip(target))
    IN \/ Canon(target) = Canon(text_name)
       \/ Len(parts) >= 2 /\ Canon(parts[Len(parts)]) = Canon(text_name)
       \/ \E i \in 1..Len(aliases) : Canon(aliases[i]) = Canon(text_name)

APPOSITION_CONFIDENCE == 74
RULE_CONFIDENCE == 70

\* re.match(r"\s*period\b", text[end:end + 12], re.IGNORECASE)
PeriodFollows(s, end) ==
    RxMatch(<<RxStar(<<RxSet("space")>>), RxLit(<<"p","e","r","i","o","d">>), RxB>>,
            Slice(s, end, end + 12), 0, NoGroups).ok

\* the concatenation of a list of lists
RECURSIVE Flatten(_)
Flatten(ls) == IF ls = <<>> THEN <<>> ELSE Head(ls) \o Flatten(Tail(ls))

\* "De-dup by fact text": the first fact of each lowercased text
RECURSIVE UniqueByText(_, _)
UniqueByText(fs, seen) ==
    IF fs = <<>> THEN <<>>
    ELSE IF LowerStr(Head(fs).fact) \in seen THEN UniqueByText(Tail(fs), seen)
         ELSE <<Head(fs)>> \o UniqueByText(Tail(fs), seen \cup {LowerStr(Head(fs).fact)})

\* _facts_from_sentence_rules(name, sent, time_id, aliases)
FactsFromSentenceRules(name, sent, time_id, aliases) ==
    LET txt == sent.text
        Rule(f, confidence) == MkFact(f, txt, sent.start, sent.end, time_id, confidence, "rule")
        app == RxFindIter(Apposition, txt)
        pos == RxFindIter(Possessive, txt)
        svo == RxFindIter(Svo, txt)
        appFacts == [i \in 1..Len(app) |->
            IF NameMatches(name, Group(txt, app[i], "name"), aliases)
            THEN <<Rule(name \o <<" ","i","s"," ">> \o Strip(Group(txt, app[i], "role")) \o <<".">>,
                        APPOSITION_CONFIDENCE)>>
            ELSE <<>>]
        posFacts == [i \in 1..Len(pos) |->
            LET obj == CollapseWs(Strip(Group(txt, pos[i], "object")))
            IN IF ~NameMatches(name, Group(txt, pos[i], "name"), aliases) THEN <<>>
               ELSE IF LowerStr(obj) \in {<<"e","a","r","l","y">>, <<"m","i","d","d","l","e">>, <<"l","a","t","e">>}
                    THEN IF PeriodFollows(txt, pos[i].end)
                         THEN <<Rule(name \o <<" ","h","a","s"," ">> \o obj \o <<" ","p","e","r","i","o","d">> \o <<".">>,
                                     RULE_CONFIDENCE)>>
                         ELSE <<>>
               ELSE <<Rule(name \o <<" ","h","a","s"," ">> \o obj \o <<".">>, RULE_CONFIDENCE)>>]
        svoFacts == [i \in 1..Len(svo) |->
            IF NameMatches(name, Group(txt, svo[i], "name"), aliases)
            THEN <<Rule(name \o <<" ">> \o LowerStr(Strip(Group(txt, svo[i], "verb")))
                             \o <<" ">> \o Strip(Group(txt, svo[i], "object")) \o <<".">>,
                        RULE_CONFIDENCE)>>
            ELSE <<>>]
    IN UniqueByText(Flatten(appFacts) \o Flatten(posFacts) \o Flatten(svoFacts), {})

\* [s.strip() for s in data.get("facts", []) if isinstance(s, str) and s.strip()]
\* over the strings of the parsed completion
StrippedFacts(raw) ==
    LET kept == SelectSeq(raw, LAMBDA r : Strip(r) # <<>>)
    IN [i \in 1..Len(kept) |-> Strip(kept[i])]

\* the key of the "de-dup + cap" loop
FactKey(f) == <<LowerStr(Strip(f.fact)), f.evidence.start, f.evidence.end>>

RECURSIVE UniqFrom(_, _, _)
UniqFrom(fs, i, seen) ==
    IF i > Len(fs) THEN <<>>
    ELSE IF FactKey(fs[i]) \in seen THEN UniqFrom(fs, i + 1, seen)
         ELSE <<fs[i]>> \o UniqFrom(fs, i + 1, seen \cup {FactKey(fs[i])})

\* the accumulated facts with no entry removed
UniqKeepAll(fs) == fs

\* uniq after the "de-dup + cap" loop
Uniq(fs) == UniqFrom(fs, 1, {})

\* the values of the results dict: a list of facts, or a string
EmptyDict == [k \in {} |-> <<>>]
ListValue(fs) == [kind |-> "list", facts |-> fs, str |-> <<>>]
StrValue(s) == [kind |-> "str", facts |-> <<>>, str |-> s]
\* d[k] = v
DictSet(d, k, v) == [x \in DOMAIN d \cup {k} |-> IF x = k THEN v ELSE d[x]]

DEBUG_KEY == "__debug_raw_text"
TIME_ID == "t1"

(***************************************************************************)
(* Inputs of extract_facts_for_entities                                    *)
(***************************************************************************)
MaxEnts == 2
MaxFactsCap == 2

FactTexts == { <<"B","o"," ","r","a","n","."," ","B","o"," ","s","a","t",".">>,
               <<"A","l"," ","B","o","'","s"," ","h","a","t","!"," ","A","l","?">>,
               <<" ","B","o",".">>,
               <<"H","i",".">>,
               <<"B","o"," ","r","a","n","."," "," ","A","l"," ","s","a","t","."," ","B","o">>,
               <<"B","o",SQ,"s"," ","a"," ","b","."," ","B","o",","," ","a"," ","c","a",","," ","B","o"," ","i","s"," ","d",".">> }

EntityPool ==
    { [name |-> <<"B","o">>, id |-> "e1", aliases |-> <<>>],
      [name |-> <<"A","l"," ","B","o">>, id |-> "e2", aliases |-> <<<<"A","l">>>>],
      [name |-> <<"A","l">>, id |-> "e1", aliases |-> <<>>],
      [name |-> <<" ">>, id |-> "e3", aliases |-> <<>>],
      [name |-> <<"C","y">>, id |-> "", aliases |-> <<>>] }

RECURSIVE ListsUpTo(_, _)
ListsUpTo(S, n) ==
    IF n = 0 THEN {<<>>}
    ELSE ListsUpTo(S, n - 1) \cup {Append(l, x) : l \in {m \in ListsUpTo(S, n - 1) : Len(m) = n - 1}, x \in S}

EntityLists == {l \in ListsUpTo(EntityPool, MaxEnts) : \A i, j \in 1..Len(l) : l[i] = l[j] => i = j}

\* the "facts" lists a parsed completion may carry: none, blank strings, one or
\* more facts, repeated facts, facts that differ in case and surrounding blanks
FactLists ==
    { <<>>,
      <<<<" ">>>>,
      <<<<"X">>>>,
      <<<<"X">>, <<"X">>>>,
      <<<<"X">>, <<" ","x">>>>,
      <<<<"X">>, <<"Y">>>>,
      <<<<"X">>, <<"Y">>, <<"x"," ">>>> }

\* what one generate_json call may do: raise, or return a completion
Completions ==
    {[raises |-> e, facts |-> <<>>] : e \in {"TimeoutError", "RuntimeError"}}
    \cup {[raises |-> "", facts |-> l] : l \in FactLists}

(***************************************************************************)
(* extract_facts_for_entities as a state machine                           *)
(***************************************************************************)
InitFact ==
    /\ NerIdle
    /\ LlmIdle
    /\ SentenceIdle
    /\ EntityIdle
    /\ StoreIdle
    /\ SplitIdle
    /\ ftext \in FactTexts
    /\ fents \in EntityLists
    /\ use_llm \in BOOLEAN
    /\ rules_fallback \in BOOLEAN
    /\ max_facts_per_entity \in 1..MaxFactsCap
    /\ fpc = "entities"
    /\ ei = 0
    /\ mention_sents = <<>>
    /\ si = 0
    /\ facts = <<>>
    /\ results = EmptyDict
    /\ llm_facts = Unbound
    /\ exc = ""
    /\ llm_log = <<>>

\* "for ent in entities": the next entity, up to the inner loop
FactNextEntity ==
    /\ fpc = "entities"
    /\ ei < Len(fents)
    /\ ei' = ei + 1
    /\ LET ent == fents[ei + 1]
           name == Strip(ent.name)
       IN IF name = <<>> \/ ent.id = ""
          THEN UNCHANGED <<fpc, mention_sents, si, facts>>
          ELSE /\ mention_sents' = FindMentionSentences(
                                       name, BuildSentenceIndex(SplitSentencesWithSpans(ftext)),
                                       ent.aliases)
               /\ si' = 0
               /\ facts' = <<>>
               /\ fpc' = "sentences"
    /\ UNCHANGED <<ftext, fents, use_llm, rules_fallback, max_facts_per_entity, results, llm_facts,
                   exc, llm_log, nerVars, llmVars, sentVars, entVars, storeVars, splitVars>>

\* the loop body with the new facts put in front of the accumulated ones
SentenceBodyPrepend(sfs) ==
    LET sent == mention_sents[si + 1]
    IN /\ llm_facts' = [bound |-> TRUE, val |-> sfs]
       /\ facts' = (IF rules_fallback /\ sfs = <<>>
                     THEN FactsFromSentenceRules(Strip(fents[ei].name), sent, TIME_ID,
                                                 fents[ei].aliases)
                     ELSE <<>>)
                    \o [i \in 1..Len(sfs) |->
                           MkFact(sfs[i], sent.text, sent.start, sent.end,
                                  TIME_ID, LLM_CONFIDENCE, "llm")] \o facts
       /\ si' = si + 1
       /\ fpc' = IF Len(facts') >= max_facts_per_entity THEN "dedup" ELSE "sentences"
       /\ UNCHANGED exc

\* the body of "for (start, end, sent_text) in mention_sents" once
\* _llm_extract_facts_for_sentence_async returned sfs
SentenceBody(sfs) ==
    LET sent == mention_sents[si + 1]
    IN /\ llm_facts' = [bound |-> TRUE, val |-> sfs]
       /\ facts' = facts \o [i \in 1..Len(sfs) |->
                                MkFact(sfs[i], sent.text, sent.start, sent.end,
                                       TIME_ID, LLM_CONFIDENCE, "llm")]
                         \o (IF rules_fallback /\ sfs = <<>>
                             THEN FactsFromSentenceRules(Strip(fents[ei].name), sent, TIME_ID,
                                                         fents[ei].aliases)
                             ELSE <<>>)
       /\ si' = si + 1
       /\ fpc' = IF Len(facts') >= max_facts_per_entity THEN "dedup" ELSE "sentences"
       /\ UNCHANGED exc

\* one iteration of the inner loop, with the call of the completion service
FactSentence ==
    /\ fpc = "sentences"
    /\ si < Len(mention_sents)
    /\ IF use_llm
       THEN \E c \in Completions :
               /\ llm_log' = Append(llm_log, IF c.raises = "" THEN "ok" ELSE c.raises)
               /\ IF c.raises # ""
                  THEN /\ fpc' = "raised"
                       /\ exc' = c.raises
                       /\ UNCHANGED <<llm_facts, facts, si>>
                  ELSE SentenceBody(StrippedFacts(c.facts))
       ELSE /\ SentenceBody(<<>>)
            /\ UNCHANGED llm_log
    /\ UNCHANGED <<ftext, fents, use_llm, rules_fallback, max_facts_per_entity, ei, mention_sents,
                   results, nerVars, llmVars, sentVars, entVars, storeVars, splitVars>>

\* the inner loop is over (exhausted or left by break): de-dup + cap
FactEndEntity ==
    /\ fpc = "dedup" \/ (fpc = "sentences" /\ si = Len(mention_sents))
    /\ results' = DictSet(results, fents[ei].id,
                          ListValue(Slice(Uniq(facts), 0, max_facts_per_entity)))
    /\ fpc' = "entities"
    /\ UNCHANGED <<ftext, fents, use_llm, rules_fallback, max_facts_per_entity, ei, mention_sents, si,
                   facts, llm_facts, exc, llm_log, nerVars, llmVars, sentVars, entVars, storeVars, splitVars>>

\* the outer loop is exhausted: "if not llm_facts" and the return
FactReturn ==
    /\ fpc = "entities"
    /\ ei = Len(fents)
    /\ IF ~llm_facts.bound
       THEN /\ fpc' = "raised"
            /\ exc' = "UnboundLocalError"
            /\ UNCHANGED results
       ELSE /\ fpc' = "returned"
            /\ results' = IF llm_facts.val = <<>>
                          THEN DictSet(results, DEBUG_KEY, StrValue(Slice(ftext, 0, 300)))
                          ELSE results
            /\ UNCHANGED exc
    /\ UNCHANGED <<ftext, fents, use_llm, rules_fallback, max_facts_per_entity, ei, mention_sents, si,
                   facts, llm_facts, llm_log, nerVars, llmVars, sentVars, entVars, storeVars, splitVars>>

NextFact == FactNextEntity \/ FactSentence \/ FactEndEntity \/ FactReturn

SpecFact == InitFact /\ [][NextFact]_vars

(***************************************************************************)
(* Properties of the fact extractor                                        *)
(***************************************************************************)
\* the input entities that have a non-empty name and id
NamedEntities == {i \in 1..Len(fents) : Strip(fents[i].name) # <<>> /\ fents[i].id # ""}
NamedIds == {fents[i].id : i \in NamedEntities}

\* at least one call of the completion service was made and every call timed out
EveryCallTimedOut ==
    /\ llm_log # <<>>
    /\ \A i \in 1..Len(llm_log) : llm_log[i] = "TimeoutError"

\* C3: if the completion service raises a timeout on every call,
\* extract_facts_for_entities does not raise and returns a map in which every input
\* entity maps to an empty list.
C3_TimeoutGivesEmptyLists ==
    EveryCallTimedOut =>
        /\ fpc # "raised"
        /\ fpc = "returned" =>
              \A id \in NamedIds :
                  /\ id \in DOMAIN results
                  /\ results[id] = ListValue(<<>>)

\* C4: for every Fact returned by extract_facts_for_entities over a text, sourceText
\* is exactly text[evidence.start:evidence.end].
C4_SourceTextIsEvidenceSlice ==
    fpc = "returned" =>
        \A k \in DOMAIN results :
            \A i \in 1..Len(results[k].facts) :
                results[k].facts[i].sourceText =
                    Slice(ftext, results[k].facts[i].evidence.start,
                                 results[k].facts[i].evidence.end)

\* C5: for every text and entity list, the empty list and entities without a
\* mention sentence included, extract_facts_for_entities returns without raising
\* (an error of the completion service aside) a map whose keys are exactly the ids
\* of the input entities that have a non-empty name and id, each mapped to a list.
C5_KeysAreEntityIds ==
    /\ fpc = "raised" => exc \in {"TimeoutError", "RuntimeError"}
    /\ fpc = "returned" =>
          /\ DOMAIN results = NamedIds
          /\ \A k \in DOMAIN results : results[k].kind = "list"

\* C10: when the inner loop of an entity is over with n candidate facts accumulated
\* (n is the number the mention sentences yield if the loop was exhausted, and at
\* least the cap m if it was left by break), the list stored for the entity is the
\* first min(m, n) candidates.
C10_CapKeepsEarliest ==
    (fpc = "entities" /\ ei \in NamedEntities) =>
        results[fents[ei].id].facts =
            Slice(facts, 0, MinOf({max_facts_per_entity, Len(facts)}))

\* out is fs with entries left out: the entries kept are in the order of fs
RECURSIVE IsSubsequence(_, _)
IsSubsequence(out, fs) ==
    IF out = <<>> THEN TRUE
    ELSE IF fs = <<>> THEN FALSE
    ELSE IF Head(out) = Head(fs) THEN IsSubsequence(Tail(out), Tail(fs))
    ELSE IsSubsequence(out, Tail(fs))

StartsAscend(fs) ==
    \A i, j \in 1..Len(fs) : i < j => fs[i].evidence.start <= fs[j].evidence.start

\* C25: in the list stored for one entity facts are in source order of their
\* mention sentences (evidence.start never decreases along the list) and the
\* facts of one sentence keep the order in which the completion produced them:
\* the list is the accumulated candidates, in their order, with entries left out.
\* The same holds of every list in the map returned.
C25_FactsInSourceOrder ==
    /\ (fpc = "entities" /\ ei \in NamedEntities) =>
          LET out == results[fents[ei].id].facts
          IN /\ StartsAscend(out)
             /\ IsSubsequence(out, facts)
             /\ \A i \in 1..Len(mention_sents) - 1 :
                   mention_sents[i].start < mention_sents[i + 1].start
    /\ fpc = "returned" =>
          \A k \in DOMAIN results : StartsAscend(results[k].facts)

\* two entities over a text of two sentences: one list holds a fact of each sentence,
\* the other two facts of the first sentence in the order produced
C25_Witness ==
    /\ fpc = "returned"
    /\ \E k \in DOMAIN results :
          /\ Len(results[k].facts) = 2
          /\ results[k].facts[1].evidence.start < results[k].facts[2].evidence.start
    /\ \E k \in DOMAIN results :
          /\ Len(results[k].facts) = 2
          /\ results[k].facts[1].evidence.start = results[k].facts[2].evidence.start
          /\ results[k].facts[1].fact = <<"X">>
          /\ results[k].facts[2].fact = <<"Y">>

\* a list holds no two facts with the same (trimmed lowercased text,
\* evidence.start, evidence.end) and is no longer than the cap
DistinctWithinCap(fs) ==
    /\ Len(fs) <= max_facts_per_entity
    /\ \A i, j \in 1..Len(fs) :
          i < j => <<LowerStr(Strip(fs[i].fact)), fs[i].evidence.start, fs[i].evidence.end>>
                   # <<LowerStr(Strip(fs[j].fact)), fs[j].evidence.start, fs[j].evidence.end>>

\* C26: for every entity the list stored, and every list of the map returned, holds
\* no two facts with the same (trimmed lowercased fact text, evidence.start,
\* evidence.end) and has at most max_facts_per_entity facts, whatever the model
\* answered and with the rules fallback on or off.
C26_NoDuplicateFactsWithinCap ==
    /\ (fpc = "entities" /\ ei \in NamedEntities) =>
          DistinctWithinCap(results[fents[ei].id].facts)
    /\ fpc = "returned" =>
          \A k \in DOMAIN results : DistinctWithinCap(results[k].facts)

\* rules fallback on: a rule fact of the first sentence, then the same fact twice
\* from the model for the second; three candidates, two stored
C26_Witness ==
    /\ fpc = "entities"
    /\ ei \in NamedEntities
    /\ rules_fallback
    /\ max_facts_per_entity = 2
    /\ Len(facts) = 3
    /\ facts[1].method = "rule"
    /\ facts[2].method = "llm"
    /\ FactKey(facts[2]) = FactKey(facts[3])
    /\ Len(results[fents[ei].id].facts) = 2

(***************************************************************************)
(* json.loads: the standard strict decoder, over the model's strings.      *)
(* A decoded value is a record of one shape:                               *)
(*   kind  "null" | "true" | "false" | "num" | "str" | "list" | "dict"     *)
(*   str   the characters of a string, the literal of a number             *)
(*   keys  the keys of a dict, in insertion order                          *)
(*   items the elements of a list, the values of a dict (by key position)  *)
(* The escape \uXXXX is not decoded: no text of the model contains it.     *)
(***************************************************************************)

JLit(k) == [kind |-> k, str |-> <<>>, keys |-> <<>>, items |-> <<>>]
JNum(lit) == [kind |-> "num", str |-> lit, keys |-> <<>>, items |-> <<>>]
JStr(s) == [kind |-> "str", str |-> s, keys |-> <<>>, items |-> <<>>]
JList(items) == [kind |-> "list", str |-> <<>>, keys |-> <<>>, items |-> items]
JDict(keys, items) == [kind |-> "dict", str |-> <<>>, keys |-> keys, items |-> items]

\* d[key] = v on the pairs of a dict: a repeated key keeps its place
DictPut(keys, items, key, v) ==
    IF \E i \in 1..Len(keys) : keys[i] = key
    THEN [keys |-> keys,
          items |-> [i \in 1..Len(items) |-> IF keys[i] = key THEN v ELSE items[i]]]
    ELSE [keys |-> Append(keys, key), items |-> Append(items, v)]

\* d.get(key, default)
DictGet(d, key, default) ==
    IF \E i \in 1..Len(d.keys) : d.keys[i] = key
    THEN d.items[CHOOSE i \in 1..Len(d.keys) : d.keys[i] = key]
    ELSE default

\* s.startswith(w, p - 1), for a 1-based position p
StartsAt(s, p, w) == p + Len(w) - 1 <= Len(s) /\ SubSeq(s, p, p + Len(w) - 1) = w

JsonWs == {" ", "\t", "\n", "\r"}

\* WHITESPACE.match(s, p).end()
RECURSIVE SkipWs(_, _)
SkipWs(s, p) == IF p <= Len(s) /\ s[p] \in JsonWs THEN SkipWs(s, p + 1) ELSE p

DecodeError == [ok |-> FALSE, val |-> JLit("null"), pos |-> 0]
Decoded(v, p) == [ok |-> TRUE, val |-> v, pos |-> p]

\* backslash escapes of a JSON string
Unescape(c) ==
    CASE c = "n" -> "\n"
      [] c = "t" -> "\t"
      [] c = "r" -> "\r"
      [] c = "f" -> "\f"
      [] c = "b" -> BACKSPACE
      [] OTHER -> c

\* py_scanstring (strict) from the position after the opening quote
RECURSIVE ScanString(_, _, _)
ScanString(s, p, acc) ==
    IF p > Len(s) THEN DecodeError
    ELSE IF s[p] = DQ THEN Decoded(JStr(acc), p + 1)
    ELSE IF s[p] = BSL
         THEN IF p + 1 <= Len(s) /\ s[p + 1] \in {DQ, BSL, "/", "b", "f", "n", "r", "t"}
              THEN ScanString(s, p + 2, Append(acc, Unescape(s[p + 1])))
              ELSE DecodeError
    ELSE IF s[p] \in {"\t", "\n", "\r"} THEN DecodeError
    ELSE ScanString(s, p + 1, Append(acc, s[p]))

RECURSIVE DigitsEnd(_, _)
DigitsEnd(s, p) == IF p <= Len(s) /\ s[p] \in DigitSet THEN DigitsEnd(s, p + 1) ELSE p

\* NUMBER_RE.match(s, p).end(), or 0: an optional minus, 0 or a run of digits not
\* starting with 0, an optional fraction, an optional exponent
NumberEnd(s, p) ==
    LET q == IF p <= Len(s) /\ s[p] = "-" THEN p + 1 ELSE p
        i == IF q > Len(s) THEN 0
             ELSE IF s[q] = "0" THEN q + 1
             ELSE IF s[q] \in DigitSet THEN DigitsEnd(s, q)
             ELSE 0
        f == IF i # 0 /\ i <= Len(s) /\ s[i] = "." /\ DigitsEnd(s, i + 1) > i + 1
             THEN DigitsEnd(s, i + 1) ELSE i
        g == IF f + 1 <= Len(s) /\ s[f + 1] \in {"-", "+"} THEN f + 2 ELSE f + 1
    IN IF f # 0 /\ f <= Len(s) /\ s[f] \in {"e", "E"} /\ DigitsEnd(s, g) > g
       THEN DigitsEnd(s, g) ELSE f

\* scan_once, JSONObject and JSONArray of json.decoder / json.scanner
RECURSIVE ScanOnce(_, _)
RECURSIVE ObjectPairs(_, _, _, _)
RECURSIVE ArrayItems(_, _, _)

\* the pairs of an object from the opening quote of a key
ObjectPairs(s, p, keys, items) ==
    LET k == ScanString(s, p + 1, <<>>)
        c == SkipWs(s, k.pos)
        v == ScanOnce(s, SkipWs(s, c + 1))
        e == SkipWs(s, v.pos)
        d == DictPut(keys, items, k.val.str, v.val)
        n == SkipWs(s, e + 1)
    IN IF ~k.ok THEN DecodeError
       ELSE IF c > Len(s) \/ s[c] # ":" THEN DecodeError
       ELSE IF ~v.ok THEN DecodeError
       ELSE IF e > Len(s) THEN DecodeError
       ELSE IF s[e] = "}" THEN Decoded(JDict(d.keys, d.items), e + 1)
       ELSE IF s[e] # "," THEN DecodeError
       ELSE IF n > Len(s) \/ s[n] # DQ THEN DecodeError
       ELSE ObjectPairs(s, n, d.keys, d.items)

\* JSONObject from the position after "{"
JSONObject(s, p) ==
    LET q == SkipWs(s, p)
    IN IF q > Len(s) THEN DecodeError
       ELSE IF s[q] = "}" THEN Decoded(JDict(<<>>, <<>>), q + 1)
       ELSE IF s[q] # DQ THEN DecodeError
       ELSE ObjectPairs(s, q, <<>>, <<>>)

\* the elements of an array from the first character of an element
ArrayItems(s, p, items) ==
    LET v == ScanOnce(s, p)
        e == SkipWs(s, v.pos)
    IN IF ~v.ok THEN DecodeError
       ELSE IF e > Len(s) THEN DecodeError
       ELSE IF s[e] = "]" THEN Decoded(JList(Append(items, v.val)), e + 1)
       ELSE IF s[e] # "," THEN DecodeError
       ELSE ArrayItems(s, SkipWs(s, e + 1), Append(items, v.val))

\* JSONArray from the position after "["
JSONArray(s, p) ==
    LET q == SkipWs(s, p)
    IN IF q <= Len(s) /\ s[q] = "]" THEN Decoded(JList(<<>>), q + 1)
       ELSE ArrayItems(s, q, <<>>)

ScanOnce(s, p) ==
    IF p > Len(s) THEN DecodeError
    ELSE IF s[p] = DQ THEN ScanString(s, p + 1, <<>>)
    ELSE IF s[p] = "{" THEN JSONObject(s, p + 1)
    ELSE IF s[p] = "[" THEN JSONArray(s, p + 1)
    ELSE IF StartsAt(s, p, <<"n","u","l","l">>) THEN Decoded(JLit("null"), p + 4)
    ELSE IF StartsAt(s, p, <<"t","r","u","e">>) THEN Decoded(JLit("true"), p + 4)
    ELSE IF StartsAt(s, p, <<"f","a","l","s","e">>) THEN Decoded(JLit("false"), p + 5)
    ELSE IF NumberEnd(s, p) # 0 THEN Decoded(JNum(SubSeq(s, p, NumberEnd(s, p) - 1)), NumberEnd(s, p))
    ELSE IF StartsAt(s, p, <<"N","a","N">>) THEN Decoded(JNum(<<"N","a","N">>), p + 3)
    ELSE IF StartsAt(s, p, <<"I","n","f","i","n","i","t","y">>)
         THEN Decoded(JNum(SubSeq(s, p, p + 7)), p + 8)
    ELSE IF StartsAt(s, p, <<"-","I","n","f","i","n","i","t","y">>)
         THEN Decoded(JNum(SubSeq(s, p, p + 8)), p + 9)
    ELSE DecodeError

\* json.loads(s): ok is FALSE where it raises
JsonLoads(s) ==
    LET v == ScanOnce(s, SkipWs(s, 1))
    IN IF v.ok /\ SkipWs(s, v.pos) = Len(s) + 1
       THEN [ok |-> TRUE, val |-> v.val]
       ELSE [ok |-> FALSE, val |-> JLit("null")]

(***************************************************************************)
(* FactExtractor._safe_json                                                *)
(***************************************************************************)
\* s.replace(old, new), old not empty
RECURSIVE ReplaceFrom(_, _, _, _)
ReplaceFrom(s, p, old, new) ==
    IF p > Len(s) THEN <<>>
    ELSE IF StartsAt(s, p, old) THEN new \o ReplaceFrom(s, p + Len(old), old, new)
    ELSE <<s[p]>> \o ReplaceFrom(s, p + 1, old, new)

Replace(s, old, new) == ReplaceFrom(s, 1, old, new)

\* s.strip(TICK)
StripTicks(s) ==
    LET ns == {i \in 1..Len(s) : s[i] # TICK}
    IN IF ns = {} THEN <<>> ELSE SubSeq(s, MinOf(ns), MaxOf(ns))

\* s.find(c) and s.rfind(c) for one character
Find(s, c) == IF \E i \in 1..Len(s) : s[i] = c
              THEN MinOf({i \in 1..Len(s) : s[i] = c}) - 1 ELSE -1
RFind(s, c) == IF \E i \in 1..Len(s) : s[i] = c
               THEN MaxOf({i \in 1..Len(s) : s[i] = c}) - 1 ELSE -1

RECURSIVE SpaceEnd(_, _)
SpaceEnd(s, p) == IF p <= Len(s) /\ IsSpace(s[p]) THEN SpaceEnd(s, p + 1) ELSE p

RECURSIVE WordEnd(_, _)
WordEnd(s, p) == IF p <= Len(s) /\ IsWordChar(s[p]) THEN WordEnd(s, p + 1) ELSE p

\* the end of a match of (?P<pre>[\{,\s])'(?P<key>\w+)'(?P<post>\s*:) at p, or 0
QuotedKeyEnd(s, p) ==
    LET w == WordEnd(s, p + 2)
        c == SpaceEnd(s, w + 1)
    IN IF /\ p + 1 <= Len(s)
          /\ (s[p] \in {"{", ","} \/ IsSpace(s[p]))
          /\ s[p + 1] = SQ
          /\ w > p + 2
          /\ w <= Len(s) /\ s[w] = SQ
          /\ c <= Len(s) /\ s[c] = ":"
       THEN c + 1 ELSE 0

\* re.sub of the quoted-key pattern by \g<pre>"\g<key>"\g<post>
RECURSIVE RequoteKeys(_, _)
RequoteKeys(s, p) ==
    IF p > Len(s) THEN <<>>
    ELSE IF QuotedKeyEnd(s, p) # 0
         THEN LET e == QuotedKeyEnd(s, p)
                  w == WordEnd(s, p + 2)
              IN <<s[p], DQ>> \o SubSeq(s, p + 2, w - 1) \o <<DQ>> \o SubSeq(s, w + 1, e - 1)
                 \o RequoteKeys(s, e)
         ELSE <<s[p]>> \o RequoteKeys(s, p + 1)

RECURSIVE PlainEnd(_, _)
PlainEnd(s, p) == IF p <= Len(s) /\ s[p] \notin {SQ, "\n"} THEN PlainEnd(s, p + 1) ELSE p

\* the end of a match at p of the quoted-value pattern (a colon, blanks, a quote, a
\* run without quote and newline, a quote), or 0
QuotedValueEnd(s, p) ==
    LET q == SpaceEnd(s, p + 1)
        e == PlainEnd(s, q + 1)
    IN IF /\ p <= Len(s) /\ s[p] = ":"
          /\ q <= Len(s) /\ s[q] = SQ
          /\ e <= Len(s) /\ s[e] = SQ
       THEN e + 1 ELSE 0

\* re.sub of the quoted-value pattern by ':"{}"'.format(group(1).replace('"', '\\"'))
RECURSIVE RequoteValues(_, _)
RequoteValues(s, p) ==
    IF p > Len(s) THEN <<>>
    ELSE IF QuotedValueEnd(s, p) # 0
         THEN LET e == QuotedValueEnd(s, p)
                  q == SpaceEnd(s, p + 1)
              IN <<":", DQ>> \o Replace(SubSeq(s, q + 1, e - 2), <<DQ>>, <<BSL, DQ>>) \o <<DQ>>
                 \o RequoteValues(s, e)
         ELSE <<s[p]>> \o RequoteValues(s, p + 1)

\* The string-list pattern: "[", items separated by ",", "]", an item being blanks,
\* a double quote, a lazy run without newline, a double quote, blanks.  ListItem
\* gives the end of the match of an item from p and of what follows it, or 0;
\* ListClose tries the closing quotes of the lazy run from the nearest on.
RECURSIVE ListItem(_, _)
RECURSIVE ListClose(_, _)
ListClose(s, j) ==
    IF j > Len(s) \/ s[j] = "\n" THEN 0
    ELSE LET q == SpaceEnd(s, j + 1)
             r == IF q > Len(s) THEN 0
                  ELSE IF s[q] = "," THEN ListItem(s, q + 1)
                  ELSE IF s[q] = "]" THEN q + 1
                  ELSE 0
         IN IF s[j] = DQ /\ r # 0 THEN r ELSE ListClose(s, j + 1)

ListItem(s, p) ==
    LET q == SpaceEnd(s, p)
    IN IF q <= Len(s) /\ s[q] = DQ THEN ListClose(s, q + 1) ELSE 0

\* re.search of the string-list pattern: m.group(0), or found is FALSE
StringListSearch(s) ==
    LET starts == {i \in 1..Len(s) : s[i] = "[" /\ ListItem(s, i + 1) # 0}
    IN IF starts = {} THEN [found |-> FALSE, group |-> <<>>]
       ELSE [found |-> TRUE,
             group |-> SubSeq(s, MinOf(starts), ListItem(s, MinOf(starts) + 1) - 1)]

FACTS == <<"f","a","c","t","s">>
NoFacts == JDict(<<FACTS>>, <<JList(<<>>)>>)
FENCE == <<TICK, TICK, TICK>>

\* the text _safe_json hands to the first json.loads
Unwrapped(txt) ==
    LET s1 == Replace(Replace(Strip(txt), FENCE \o <<"j","s","o","n">>, FENCE),
                      FENCE \o <<"J","S","O","N">>, FENCE)
        s2 == IF StartsAt(s1, 1, FENCE) /\ StartsAt(s1, Len(s1) - 2, FENCE)
              THEN Strip(StripTicks(s1)) ELSE s1
        start == Find(s2, "{")
        end == RFind(s2, "}")
        s3 == IF start # -1 /\ end # -1 /\ end > start THEN Slice(s2, start, end + 1) ELSE s2
    IN Replace(Replace(Replace(Replace(s3, <<LDQ>>, <<DQ>>), <<RDQ>>, <<DQ>>),
                       <<RSQ>>, <<SQ>>), <<HRQ>>, <<SQ>>)

SafeJson(txt) ==
    LET s == Unwrapped(txt)
        s2 == RequoteValues(RequoteKeys(s, 1), 1)
        m == StringListSearch(s)
    IN IF txt = <<>> THEN NoFacts
       ELSE IF JsonLoads(s).ok THEN JsonLoads(s).val
       ELSE IF JsonLoads(s2).ok THEN JsonLoads(s2).val
       ELSE IF m.found /\ JsonLoads(m.group).ok
            THEN JDict(<<FACTS>>, <<JsonLoads(m.group).val>>)
       ELSE NoFacts

\* [s.strip() for s in data.get("facts", []) if isinstance(s, str) and s.strip()]:
\* the list, or the exception the expression raises
FactsOf(data) ==
    LET v == DictGet(data, FACTS, JList(<<>>))
        elems == CASE v.kind = "list" -> v.items
                   [] v.kind = "str" -> [i \in 1..Len(v.str) |-> JStr(<<v.str[i]>>)]
                   [] v.kind = "dict" -> [i \in 1..Len(v.keys) |-> JStr(v.keys[i])]
                   [] OTHER -> <<>>
        kept == SelectSeq(elems, LAMBDA x : x.kind = "str" /\ Strip(x.str) # <<>>)
    IN IF data.kind # "dict" THEN [raises |-> "AttributeError", facts |-> <<>>]
       ELSE IF v.kind \notin {"list", "str", "dict"} THEN [raises |-> "TypeError", facts |-> <<>>]
       ELSE [raises |-> "", facts |-> [i \in 1..Len(kept) |-> Strip(kept[i].str)]]

(***************************************************************************)
(* Inputs of _llm_extract_facts_for_sentence_async: the text generate_json *)
(* returns (it is stripped by LLMManager)                                  *)
(***************************************************************************)
\* the bodies of the completions: not JSON, JSON that is no object, objects whose
\* "facts" is no list of strings, objects in single or typographic quotes
CompletionBodies ==
    { <<>>,   \* (empty)
      <<"n","o">>,   \* no
      <<"[","1","]">>,   \* [1]
      <<"5">>,   \* 5
      <<DQ,"x",DQ>>,   \* "x"
      <<"n","u","l","l">>,   \* null
      <<"t","r","u","e">>,   \* true
      <<"{",DQ,"f","a","c","t","s",DQ,":"," ","n","u","l","l","}">>,   \* {"facts": null}
      <<"{",DQ,"f","a","c","t","s",DQ,":"," ","5","}">>,   \* {"facts": 5}
      <<"{",DQ,"f","a","c","t","s",DQ,":"," ",DQ,"a","b",DQ,"}">>,   \* {"facts": "ab"}
      <<"{",DQ,"f","a","c","t","s",DQ,":"," ","[","1",","," ",DQ,"A",".",DQ,"]","}">>,   \* {"facts": [1, "A."]}
      <<"{",DQ,"f","a","c","t","s",DQ,":"," ","{",DQ,"a",DQ,":"," ",DQ,"b",DQ,"}","}">>,   \* {"facts": {"a": "b"}}
      <<"{","}">>,   \* {}
      <<"{",DQ,"f","a","c","t","s",DQ,":"," ","[",DQ,"A",".",DQ,"]","}">>,   \* {"facts": ["A."]}
      <<"{",SQ,"f","a","c","t","s",SQ,":"," ","[",SQ,"A",".",SQ,"]","}">>,   \* {'facts': ['A.']}
      <<"{",SQ,"f","a","c","t","s",SQ,":"," ",SQ,"A",".",SQ,"}">>,   \* {'facts': 'A.'}
      <<"[",DQ,"A",".",DQ,"]">>,   \* ["A."]
      <<"{",LDQ,"f","a","c","t","s",RDQ,":"," ","[",LDQ,"A",".",RDQ,"]","}">>,   \* {“facts”: [“A.”]}
      <<"{",SQ,"a",SQ,":"," ",SQ,"b",DQ,"c",SQ,"}">>,   \* {'a': 'b"c'}
      <<"{",DQ,"f","a","c","t","s",DQ,":"," ","[",DQ," ","A","."," ",DQ,","," ",DQ," ",DQ,","," ",DQ,"B",DQ,"]","}">>,   \* {"facts": [" A. ", " ", "B"]}
      <<"{",DQ,"f","a","c","t","s",DQ,":"," ","[",DQ,"A",".",DQ,"]",",","}">>,   \* {"facts": ["A."],}
      <<"{",DQ,"a",DQ,":"," ","1",","," ",DQ,"f","a","c","t","s",DQ,":"," ","[",DQ,"B",DQ,"]",","," ",DQ,"a",DQ,":"," ","2","}">>,   \* {"a": 1, "facts": ["B"], "a": 2}
      <<"{",DQ,"f","a","c","t","s",DQ,":"," ","[",DQ,"A",BSL,DQ,"B",DQ,"]","}">>,   \* {"facts": ["A\"B"]}
      <<"{"," ",SQ,"f","a","c","t","s",SQ," ",":"," ",SQ,"i","t",RSQ,"s",SQ," ",","," ",SQ,"n",SQ,":","-","1",".","5","e","2","}">> }   \* { 'facts' : 'it’s' , 'n':-1.5e2}

\* a completion bare, in a Markdown code fence, and inside prose
Wrappings(b) ==
    { b,
      FENCE \o <<"j","s","o","n","\n">> \o b \o <<"\n">> \o FENCE,
      FENCE \o b \o FENCE,
      <<"O","k",":"," ">> \o b,
      b \o <<" ","o","k">> }

CompletionTexts == {Strip(w) : w \in UNION {Wrappings(b) : b \in CompletionBodies}}

\* the exceptions generate_json lets through
ServiceErrors == {"TimeoutError", "RuntimeError"}

(***************************************************************************)
(* _llm_extract_facts_for_sentence_async as a state machine                *)
(***************************************************************************)
InitSentence ==
    /\ NerIdle
    /\ LlmIdle
    /\ FactIdle
    /\ EntityIdle
    /\ StoreIdle
    /\ SplitIdle
    /\ cuse_llm \in BOOLEAN
    /\ cpc = "start"
    /\ ctext = <<>>
    /\ cdata = JLit("null")
    /\ cfacts = <<>>
    /\ cexc = ""

\* up to "text = await self.llm.generate_json(...)" and the debug output
SentenceCall ==
    /\ cpc = "start"
    /\ IF ~cuse_llm
       THEN /\ cpc' = "returned"
            /\ UNCHANGED <<ctext, cexc>>
       ELSE \/ \E e \in ServiceErrors :
                  /\ cpc' = "raised"
                  /\ cexc' = e
                  /\ UNCHANGED ctext
            \/ \E t \in CompletionTexts :
                  /\ ctext' = t
                  /\ cpc' = "called"
                  /\ UNCHANGED cexc
    /\ UNCHANGED <<cuse_llm, cdata, cfacts, nerVars, llmVars, factVars, entVars, storeVars, splitVars>>

\* "data = self._safe_json(text)"
SentenceParse ==
    /\ cpc = "called"
    /\ cdata' = SafeJson(ctext)
    /\ cpc' = "parsed"
    /\ UNCHANGED <<cuse_llm, ctext, cfacts, cexc, nerVars, llmVars, factVars, entVars, storeVars, splitVars>>

\* "facts = [...]" and "return facts"
SentenceFacts ==
    /\ cpc = "parsed"
    /\ LET r == FactsOf(cdata)
       IN IF r.raises # ""
          THEN /\ cpc' = "raised"
               /\ cexc' = r.raises
               /\ UNCHANGED cfacts
          ELSE /\ cpc' = "returned"
               /\ cfacts' = r.facts
               /\ UNCHANGED cexc
    /\ UNCHANGED <<cuse_llm, ctext, cdata, nerVars, llmVars, factVars, entVars, storeVars, splitVars>>

NextSentence == SentenceCall \/ SentenceParse \/ SentenceFacts

SpecSentence == InitSentence /\ [][NextSentence]_vars

(***************************************************************************)
(* Properties of the tolerant JSON recovery                                *)
(***************************************************************************)
\* C11: for every completion text (empty, not JSON, JSON that is not an object, an
\* object whose "facts" is not a list of strings) _safe_json and the per-sentence
\* extraction built on it return a list of fact strings and never raise: the
\* per-sentence extraction raises only what generate_json raised.
C11_RecoveryNeverRaises ==
    cpc = "raised" => cexc \in ServiceErrors

\* the completion in the example of C12: {'facts': ['A.']} in a json code fence
FencedSingleQuoted ==
    FENCE \o <<"j","s","o","n","\n","{",SQ,"f","a","c","t","s",SQ,":"," ","[",SQ,"A",".",SQ,"]","}","\n">> \o FENCE

\* C12: _safe_json of a code-fenced object in single quotes whose "facts" is a list
\* of single-quoted strings is the object in double quotes, {"facts": ["A."]}, not
\* the empty result.
C12_FencedSingleQuotesRecovered ==
    (cpc = "parsed" /\ ctext = FencedSingleQuoted) =>
        cdata = JDict(<<FACTS>>, <<JList(<<JStr(<<"A",".">>)>>)>>)

(***************************************************************************)
(* models/entity_extractor.py: EntityExtractor.extract_entities, the       *)
(* pipeline of regex candidates validated and classified by the model.     *)
(* The file holds both sides of an unfinished merge (markers at lines 58,  *)
(* 76, 153, 407-477); the pipeline is the side marked "Stashed changes"    *)
(* (lines 77-152, 419-430, 453-476).  The other side imports a setting     *)
(* that config/settings.py does not define.                                *)
(* A call of LLMManager.generate is represented by its outcome: the        *)
(* stripped completion, asyncio.TimeoutError or another exception          *)
(* (llm_manager.py:85-106), and a call of reset_context by its entry in    *)
(* the history xlog.  The manager's own state is the subject of SpecLLM.   *)
(***************************************************************************)
\* str.upper()
ToUpper(c) == IF c \in LowerSet
              THEN UpperChars[CHOOSE i \in 1..Len(LowerChars) : LowerChars[i] = c]
              ELSE c
UpperStr(s) == [i \in 1..Len(s) |-> ToUpper(s[i])]

\* "w in s" for strings
Contains(s, w) == \E p \in 1..(Len(s) + 1) : StartsAt(s, p, w)

CHARACTER == <<"c","h","a","r","a","c","t","e","r">>
LOCATION == <<"l","o","c","a","t","i","o","n">>
OBJECT == <<"o","b","j","e","c","t">>
EVENT == <<"e","v","e","n","t">>
ORGANIZATION == <<"o","r","g","a","n","i","z","a","t","i","o","n">>
ORG == <<"o","r","g">>
CONCEPT == <<"c","o","n","c","e","p","t">>
NONE == <<"n","o","n","e">>

\* what a call of generate came to
Completed(r) == [kind |-> "text", text |-> r]
TimedOut == [kind |-> "timeout", text |-> <<>>]
Raised == [kind |-> "raise", text |-> <<>>]
NotCalled == [kind |-> "none", text |-> <<>>]

\* _validate_entity_candidate: 'YES' in response.upper(); both handlers return False
ValidateEntityCandidate(o) ==
    IF o.kind = "text" THEN Contains(UpperStr(o.text), <<"Y","E","S">>) ELSE FALSE

\* types, in the order the substring search tries them
types == <<CHARACTER, LOCATION, OBJECT, EVENT, ORGANIZATION, ORG, CONCEPT>>

\* the classification without the two "if ... == 'org'" corrections
ClassifyEntityTypeKeepOrg(o) ==
    IF o.kind # "text" THEN NONE
    ELSE LET response_lower == Strip(LowerStr(o.text))
             found == {i \in 1..Len(types) : Contains(response_lower, types[i])}
         IN IF \E i \in 1..Len(types) : types[i] = response_lower
            THEN response_lower
            ELSE IF found # {} THEN types[MinOf(found)] ELSE NONE

\* _classify_entity_type: exact match, then the first type contained in the
\* response, 'org' read as 'organization'; 'none' otherwise and on any exception
ClassifyEntityType(o) ==
    IF o.kind # "text" THEN NONE
    ELSE LET response_lower == Strip(LowerStr(o.text))
             found == {i \in 1..Len(types) : Contains(response_lower, types[i])}
             entity_type == IF \E i \in 1..Len(types) : types[i] = response_lower
                            THEN response_lower
                            ELSE IF found # {} THEN types[MinOf(found)] ELSE NONE
         IN IF entity_type = ORG THEN ORGANIZATION ELSE entity_type

\* _format_entities: ids ent_000001.. in list order, version 1
FormatEntities(raw) ==
    [i \in 1..Len(raw) |->
        [id |-> i,
         entityType |-> IF raw[i].type # <<>> THEN raw[i].type ELSE CHARACTER,
         name |-> raw[i].name,
         aliases |-> <<>>,
         facts |-> <<>>,
         version |-> 1]]

batch_size == 3

\* _capture_entity_candidates returns sorted(list(candidates)): distinct names in
\* ascending order
CandidatePool == <<"Ann", "Bob", "Cid", "Dee">>
CandidateNames == {CandidatePool[i] : i \in 1..Len(CandidatePool)}
CandidateLists == {Keep(CandidatePool, K) : K \in SUBSET (1..Len(CandidatePool))}

\* completions of the model, as generate returns them (stripped): answers to the
\* validation prompt and answers to the classification prompt
Answers == {<<"Y","e","s",".">>, <<"n","o">>}
TypeAnswers ==
    {<<"O","r","g">>,
     <<"a"," ","c","h","a","r","a","c","t","e","r">>,
     <<>>,
     <<"o","b","j","e","c","t"," ","l","o","c","a","t","i","o","n">>,
     <<"o","r","g","a","n","i","z","a","t","i","o","n">>,
     <<"o","r","g","s">>,
     <<"n","o","n","e">>,
     <<"p","e","r","s","o","n">>,
     <<"E","V","E","N","T">>,
     <<"c","o","n","c","e","p","t">>}
Responses == Answers \cup TypeAnswers
Outcomes == {TimedOut, Raised} \cup {Completed(r) : r \in Responses}
ValidationOutcomes == {o \in Outcomes : o.kind = "text" => o.text \in Answers}
ClassificationOutcomes == {o \in Outcomes : o.kind = "text" => o.text \in TypeAnswers}

\* candidates[i:i+batch_size]
BatchAt(list, i) ==
    SubSeq(list, i + 1, IF i + batch_size < Len(list) THEN i + batch_size ELSE Len(list))

\* entries of the history xlog
ResetEvent(phase) == [ev |-> "reset", phase |-> phase, name |-> ""]
CallEvent(phase, name) == [ev |-> "call", phase |-> phase, name |-> name]

InitEntity == NerIdle /\ LlmIdle /\ FactIdle /\ SentenceIdle /\ EntityIdle /\ StoreIdle /\ SplitIdle

\* extract_entities up to the first loop: "candidates = ...", "validated = []"
ExtractEntities ==
    /\ xpc = "idle"
    /\ \E cs \in CandidateLists : candidates' = cs
    /\ xpc' = "validating"
    /\ UNCHANGED <<bi, batch, vi, validated, ci, raw_entities, formatted_entities,
                   vout, cout, xlog, nerVars, llmVars, factVars, sentVars, storeVars, splitVars>>

\* a pass of "for i in range(0, len(candidates), batch_size)" that leaves out
\* the call self.llm_manager.reset_context() (lines 92-97)
ValidateBatchNoReset ==
    /\ xpc = "validating"
    /\ bi < Len(candidates)
    /\ batch' = BatchAt(candidates, bi)
    /\ xpc' = "validate_batch"
    /\ UNCHANGED <<xlog, bi, candidates, vi, validated, ci, raw_entities, formatted_entities,
                   vout, cout, nerVars, llmVars, factVars, sentVars, storeVars, splitVars>>

\* a pass of "for i in range(0, len(candidates), batch_size)" begins (lines
\* 87-97): the batch is sliced and the manager's context reset
ValidateBatch ==
    /\ xpc = "validating"
    /\ bi < Len(candidates)
    /\ batch' = BatchAt(candidates, bi)
    /\ xlog' = Append(xlog, ResetEvent("validate"))
    /\ xpc' = "validate_batch"
    /\ UNCHANGED <<bi, candidates, vi, validated, ci, raw_entities, formatted_entities,
                   vout, cout, nerVars, llmVars, factVars, sentVars, storeVars, splitVars>>

\* the validation loop with neither handler: the exception of a failed call
\* reaches the outer handler of extract_entities, which returns []
ValidateCandidateUnguarded(o) ==
    /\ xpc = "validate_batch"
    /\ vi - bi < Len(batch)
    /\ xlog' = Append(xlog, CallEvent("validate", batch[vi - bi + 1]))
    /\ IF o.kind = "text"
       THEN /\ validated' = IF ValidateEntityCandidate(o)
                            THEN Append(validated, batch[vi - bi + 1]) ELSE validated
            /\ vout' = Append(vout, o)
            /\ vi' = vi + 1
            /\ UNCHANGED <<xpc, formatted_entities>>
       ELSE /\ xpc' = "returned"
            /\ formatted_entities' = <<>>
            /\ UNCHANGED <<validated, vout, vi>>
    /\ UNCHANGED <<bi, batch, candidates, ci, raw_entities, cout,
                   nerVars, llmVars, factVars, sentVars, storeVars, splitVars>>

\* the validation pass with a retry: a call that timed out or raised is issued
\* again for the same candidate
ValidateCandidateRetry(o) ==
    /\ xpc = "validate_batch"
    /\ vi - bi < Len(batch)
    /\ xlog' = Append(xlog, CallEvent("validate", batch[vi - bi + 1]))
    /\ IF o.kind = "text"
       THEN /\ validated' = IF ValidateEntityCandidate(o)
                            THEN Append(validated, batch[vi - bi + 1]) ELSE validated
            /\ vout' = Append(vout, o)
            /\ vi' = vi + 1
       ELSE UNCHANGED <<validated, vout, vi>>
    /\ Len(xlog) < 12
    /\ UNCHANGED <<xpc, bi, batch, candidates, ci, raw_entities, formatted_entities, cout,
                   nerVars, llmVars, factVars, sentVars, storeVars, splitVars>>

\* one pass of "for idx, candidate in enumerate(batch)" (lines 99-112): a failed
\* call is a rejection decided inside _validate_entity_candidate; the loop's own
\* handler continues.  idx is vi - bi.
ValidateCandidate(o) ==
    /\ xpc = "validate_batch"
    /\ vi - bi < Len(batch)
    /\ LET candidate == batch[vi - bi + 1]
           is_entity == ValidateEntityCandidate(o)
       IN /\ validated' = IF is_entity THEN Append(validated, candidate) ELSE validated
          /\ xlog' = Append(xlog, CallEvent("validate", candidate))
    /\ vout' = Append(vout, o)
    /\ vi' = vi + 1
    /\ UNCHANGED <<xpc, bi, batch, candidates, ci, raw_entities, formatted_entities, cout,
                   nerVars, llmVars, factVars, sentVars, storeVars, splitVars>>

ValidateStep ==
    \E o \in ValidationOutcomes : ValidateCandidate(o)

\* the batch is exhausted: "await asyncio.sleep(0.2)" (line 116), and range()
\* moves i on by batch_size
ValidateBatchEnd ==
    /\ xpc = "validate_batch"
    /\ vi - bi = Len(batch)
    /\ bi' = bi + batch_size
    /\ xpc' = "validating"
    /\ UNCHANGED <<batch, candidates, vi, validated, ci, raw_entities, formatted_entities,
                   vout, cout, xlog, nerVars, llmVars, factVars, sentVars, storeVars, splitVars>>

\* range(0, len(candidates), batch_size) is exhausted: "entities = []" and the
\* classification loop starts its own range
ValidationDone ==
    /\ xpc = "validating"
    /\ bi >= Len(candidates)
    /\ bi' = 0
    /\ xpc' = "classifying"
    /\ UNCHANGED <<batch, candidates, vi, validated, ci, raw_entities, formatted_entities,
                   vout, cout, xlog, nerVars, llmVars, factVars, sentVars, storeVars, splitVars>>

\* a pass of "for i in range(0, len(validated), batch_size)" begins (lines
\* 122-130): the batch is sliced and the manager's context reset
ClassifyBatch ==
    /\ xpc = "classifying"
    /\ bi < Len(validated)
    /\ batch' = BatchAt(validated, bi)
    /\ xlog' = Append(xlog, ResetEvent("classify"))
    /\ xpc' = "classify_batch"
    /\ UNCHANGED <<bi, candidates, vi, validated, ci, raw_entities, formatted_entities,
                   vout, cout, nerVars, llmVars, factVars, sentVars, storeVars, splitVars>>

\* one pass of "for entity_name in batch" (lines 132-144)
ClassifyEntity(o) ==
    /\ xpc = "classify_batch"
    /\ ci - bi < Len(batch)
    /\ LET entity_name == batch[ci - bi + 1]
           entity_type == ClassifyEntityType(o)
       IN /\ raw_entities' = IF entity_type # <<>> /\ entity_type # NONE
                             THEN Append(raw_entities,
                                         [name |-> entity_name, type |-> entity_type])
                             ELSE raw_entities
          /\ cout' = Append(cout, o)
          /\ xlog' = Append(xlog, CallEvent("classify", entity_name))
    /\ ci' = ci + 1
    /\ UNCHANGED <<xpc, bi, batch, candidates, vi, validated, formatted_entities, vout,
                   nerVars, llmVars, factVars, sentVars, storeVars, splitVars>>

ClassifyStep ==
    \E o \in ClassificationOutcomes : ClassifyEntity(o)

\* the batch is exhausted: "await asyncio.sleep(0.1)" (line 147)
ClassifyBatchEnd ==
    /\ xpc = "classify_batch"
    /\ ci - bi = Len(batch)
    /\ bi' = bi + batch_size
    /\ xpc' = "classifying"
    /\ UNCHANGED <<batch, candidates, vi, validated, ci, raw_entities, formatted_entities,
                   vout, cout, xlog, nerVars, llmVars, factVars, sentVars, storeVars, splitVars>>

\* "formatted_entities = self._format_entities(entities, time_id)" and the return
ExtractReturn ==
    /\ xpc = "classifying"
    /\ bi >= Len(validated)
    /\ formatted_entities' = FormatEntities(raw_entities)
    /\ xpc' = "returned"
    /\ UNCHANGED <<bi, batch, candidates, vi, validated, ci, raw_entities, vout, cout,
                   xlog, nerVars, llmVars, factVars, sentVars, storeVars, splitVars>>

NextEntity ==
    \/ ExtractEntities
    \/ ValidateBatch
    \/ ValidateStep
    \/ ValidateBatchEnd
    \/ ValidationDone
    \/ ClassifyBatch
    \/ ClassifyStep
    \/ ClassifyBatchEnd
    \/ ExtractReturn

SpecEntity == InitEntity /\ [][NextEntity]_vars

(***************************************************************************)
(* Properties of the candidate pipeline                                    *)
(***************************************************************************)
\* history: what the validation call and the classification call of
\* candidate c came to
VOut(c) ==
    LET at == {i \in 1..Len(vout) : candidates[i] = c}
    IN IF at = {} THEN NotCalled ELSE vout[MinOf(at)]
COut(c) ==
    LET at == {i \in 1..Len(cout) : validated[i] = c}
    IN IF at = {} THEN NotCalled ELSE cout[MinOf(at)]

\* the candidate was accepted and given a type by completions that arrived
Kept(c) ==
    /\ VOut(c).kind = "text"
    /\ ValidateEntityCandidate(VOut(c))
    /\ COut(c).kind = "text"
    /\ ClassifyEntityType(COut(c)) # NONE

\* C14: when the completion call of one candidate raises or times out, only that
\* candidate is omitted: extract_entities returns normally, every candidate has
\* been validated, every validated candidate has been classified, and the
\* entities returned are, in order, exactly the candidates whose own two
\* completions arrived and accepted them.
C14_FailureOmitsOnlyThatCandidate ==
    xpc = "returned" =>
        /\ \A i \in 1..Len(candidates) : VOut(candidates[i]) # NotCalled
        /\ \A i \in 1..Len(candidates) :
              ValidateEntityCandidate(VOut(candidates[i])) => COut(candidates[i]) # NotCalled
        /\ [i \in 1..Len(formatted_entities) |-> formatted_entities[i].name]
              = SelectSeq(candidates, Kept)
        /\ \A i \in 1..Len(formatted_entities) :
              /\ formatted_entities[i].id = i
              /\ formatted_entities[i].entityType
                    = ClassifyEntityType(COut(formatted_entities[i].name))

\* two batches; one validation timed out, one classification raised, and the
\* candidates around them were returned
C14_Witness ==
    /\ xpc = "returned"
    /\ Len(candidates) = 4
    /\ VOut(candidates[2]) = TimedOut
    /\ COut(candidates[3]) = Raised
    /\ Len(formatted_entities) = 2
    /\ formatted_entities[1].name = candidates[1]
    /\ formatted_entities[2].name = candidates[4]

\* every await of the pipeline returns: generate returns, raises or times out
\* after RESPONSE_TIMEOUT (llm_manager.py:93-96), asyncio.sleep returns
FairEntity == SpecEntity /\ WF_vars(NextEntity)

\* the resets and calls of the validation loop, in the order made
IsValidation(e) == e.phase = "validate"
ValidationLog == SelectSeq(xlog, IsValidation)
IsReset(e) == e.ev = "reset"
IsCall(e) == e.ev = "call"
ValidationOver == xpc \in {"classifying", "classify_batch", "returned"}

CallsFor(phase, c) == {k \in 1..Len(xlog) : xlog[k] = CallEvent(phase, c)}
Failed(o) == o.kind \in {"timeout", "raise"}

\* C23: for every candidate at most one completion call is issued during
\* validation and at most one during classification, whatever the outcome: a
\* timeout or error is not followed by a second attempt, a candidate whose
\* validation timed out is rejected (and never classified), and one whose
\* classification timed out gets the type none and is left out.
C23_OneCallPerCandidatePerPhase ==
    \A c \in CandidateNames :
        /\ Cardinality(CallsFor("validate", c)) <= 1
        /\ Cardinality(CallsFor("classify", c)) <= 1
        /\ Failed(VOut(c)) =>
              /\ ~ValidateEntityCandidate(VOut(c))
              /\ \A k \in 1..Len(validated) : validated[k] # c
              /\ CallsFor("classify", c) = {}
        /\ Failed(COut(c)) =>
              /\ ClassifyEntityType(COut(c)) = NONE
              /\ \A k \in 1..Len(raw_entities) : raw_entities[k].name # c
              /\ \A k \in 1..Len(formatted_entities) : formatted_entities[k].name # c

\* a validation and a classification timed out; each of the two candidates was
\* called once in that phase and the pipeline went on to return
C23_Witness ==
    /\ xpc = "returned"
    /\ Len(candidates) >= 2
    /\ VOut(candidates[1]) = TimedOut
    /\ Cardinality(CallsFor("validate", candidates[1])) = 1
    /\ COut(candidates[2]) = TimedOut
    /\ Cardinality(CallsFor("classify", candidates[2])) = 1

\* the values classification may return
ReturnedTypes == {CHARACTER, LOCATION, OBJECT, EVENT, ORGANIZATION, CONCEPT, NONE}
\* the type tokens looked for, in the order of the fixed list
TypeTokens == <<CHARACTER, LOCATION, OBJECT, EVENT, ORGANIZATION, ORG, CONCEPT>>
OrgAsOrganization(t) == IF t = ORG THEN ORGANIZATION ELSE t

\* the type the k-th classification call gave to validated[k], read from what the
\* pipeline kept: the type of its entry in the local entities, none without entry
TypeGiven(k) ==
    LET at == {j \in 1..Len(raw_entities) : raw_entities[j].name = validated[k]}
    IN IF at = {} THEN NONE ELSE raw_entities[MinOf(at)].type

MaxOps == 4
MaxId == 3

\* an entity handed to add_entity without an "id" ("if not entity_id")
NoId == 0

StoreIds(es) == {es[i].id : i \in 1..Len(es)}
StoreIndex(es, id) == CHOOSE i \in 1..Len(es) : es[i].id = id

\* get_entity: self.entities.get(entity_id)
GetEntity(es, id) == IF id \in StoreIds(es) THEN <<es[StoreIndex(es, id)]>> ELSE <<>>

\* self.entities[entity_id] = entity: an existing key keeps its place and takes
\* the new value, a new key goes last
SetItem(es, id, e) ==
    IF id \in StoreIds(es) THEN [es EXCEPT ![StoreIndex(es, id)] = e] ELSE Append(es, e)

\* del self.entities[entity_id]
DelItem(es, id) == Keep(es, {i \in 1..Len(es) : es[i].id # id})

\* the id add_entity stores the entity under: the entity's own, or one made
\* from the number of entities held
AssignedId(es, entity) ==
    IF entity.id # NoId THEN entity.id ELSE Len(es) + 1

\* add_entity on the dict es: the dict afterwards
AddEntityTo(es, entity) ==
    LET entity_id == AssignedId(es, entity)
    IN SetItem(es, entity_id, [entity EXCEPT !.id = entity_id])

\* add_entities: add_entity for each entity of the list, in order
RECURSIVE AddEntitiesTo(_, _)
AddEntitiesTo(es, list) ==
    IF list = <<>> THEN es ELSE AddEntitiesTo(AddEntityTo(es, Head(list)), Tail(list))

\* list(existing_aliases | new_aliases): the members of the union, in any order
ListsOf(S) ==
    {q \in [1..Cardinality(S) -> S] : {q[i] : i \in 1..Cardinality(S)} = S}

SeqRange(q) == {q[i] : i \in 1..Len(q)}

\* update_entity on one entity: facts appended, aliases united (as), the other
\* fields replaced, version incremented
UpdatedEntity(entity, updates, as) ==
    [entity EXCEPT
        !.facts = IF "facts" \in updates.keys THEN @ \o updates.facts ELSE @,
        !.aliases = IF "aliases" \in updates.keys THEN as ELSE @,
        !.name = IF "name" \in updates.keys THEN updates.name ELSE @,
        !.version = @ + 1]

\* the lists the extractor hands to _format_entities
RawPool ==
    <<[name |-> "Ann", type |-> CHARACTER], [name |-> "Bob", type |-> LOCATION]>>
RawLists == {Keep(RawPool, K) : K \in SUBSET (1..Len(RawPool))}

\* entities callers hand to add_entity, with an id of their own or without
AddPool ==
    {[id |-> g, entityType |-> OBJECT, name |-> n, aliases |-> <<>>, facts |-> <<>>,
      version |-> 1] : g \in {NoId} \cup 1..MaxId, n \in {"Eve", "Fay"}}

UpdatePool ==
    {[keys |-> {"facts"}, facts |-> <<"f">>, aliases |-> <<>>, name |-> ""],
     [keys |-> {"aliases"}, facts |-> <<>>, aliases |-> <<"Al", "Bo">>, name |-> ""],
     [keys |-> {"name", "aliases"}, facts |-> <<>>, aliases |-> <<"Al">>, name |-> "Zed"]}

InitStore ==
    /\ NerIdle
    /\ LlmIdle
    /\ FactIdle
    /\ SentenceIdle
    /\ EntityIdle
    /\ StoreIdle
    /\ SplitIdle

\* _save_entities after a change: the file holds list(self.entities.values())
Saved(es) ==
    /\ store_entities' = es
    /\ disk' = es

\* POST /entities/extract: the entities extract_entities returned are stored
\* with add_entities when there are any
ApiExtractEntities ==
    /\ nops < MaxOps
    /\ \E raw \in RawLists :
          LET ents == FormatEntities(raw)
          IN /\ IF ents # <<>>
                THEN Saved(AddEntitiesTo(store_entities, ents))
                ELSE UNCHANGED <<store_entities, disk>>
             /\ returned_log' = returned_log \o ents
    /\ nops' = nops + 1
    /\ last_op' = [op |-> "extract", given |-> NoId, id |-> NoId]
    /\ UNCHANGED <<api_only, nerVars, llmVars, factVars, sentVars, entVars, splitVars>>

AddEntity ==
    /\ nops < MaxOps
    /\ \E entity \in AddPool :
          /\ Saved(AddEntityTo(store_entities, entity))
          /\ last_op' = [op |-> "add_entity", given |-> entity.id,
                         id |-> AssignedId(store_entities, entity)]
    /\ nops' = nops + 1
    /\ api_only' = FALSE
    /\ UNCHANGED <<returned_log, nerVars, llmVars, factVars, sentVars, entVars, splitVars>>

UpdateEntity ==
    /\ nops < MaxOps
    /\ \E entity_id \in 1..MaxId, updates \in UpdatePool :
          /\ IF entity_id \in StoreIds(store_entities)
             THEN LET entity == store_entities[StoreIndex(store_entities, entity_id)]
                  IN \E as \in ListsOf(SeqRange(entity.aliases) \cup SeqRange(updates.aliases)) :
                        Saved(SetItem(store_entities, entity_id,
                                      UpdatedEntity(entity, updates, as)))
             ELSE UNCHANGED <<store_entities, disk>>
          /\ last_op' = [op |-> "update_entity", given |-> entity_id, id |-> NoId]
    /\ nops' = nops + 1
    /\ api_only' = FALSE
    /\ UNCHANGED <<returned_log, nerVars, llmVars, factVars, sentVars, entVars, splitVars>>

DeleteEntity ==
    /\ nops < MaxOps
    /\ \E entity_id \in 1..MaxId :
          /\ IF entity_id \in StoreIds(store_entities)
             THEN Saved(DelItem(store_entities, entity_id))
             ELSE UNCHANGED <<store_entities, disk>>
          /\ last_op' = [op |-> "delete_entity", given |-> entity_id, id |-> NoId]
    /\ nops' = nops + 1
    /\ api_only' = FALSE
    /\ UNCHANGED <<returned_log, nerVars, llmVars, factVars, sentVars, entVars, splitVars>>

NextStore ==
    \/ ApiExtractEntities
    \/ AddEntity
    \/ UpdateEntity
    \/ DeleteEntity

SpecStore == InitStore /\ [][NextStore]_vars

\* C27: while only extraction calls have stored into the store, every entity
\* an earlier call returned can still be retrieved and the store holds as many
\* entities as the calls returned in total
Retrievable(r) ==
    LET got == GetEntity(store_entities, r.id)
    IN /\ got # <<>>
       /\ got[1].name = r.name
       /\ got[1].entityType = r.entityType
C27_StoredExtractionsAllKept ==
    api_only =>
        /\ \A k \in 1..Len(returned_log) : Retrievable(returned_log[k])
        /\ Len(store_entities) = Len(returned_log)

\* C28: an add_entity of an entity without an id stores it under an id that
\* was no key of the store, and the store grows by exactly one entity
C28_GeneratedIdIsFresh ==
    [][(nops' = nops + 1 /\ last_op'.op = "add_entity" /\ last_op'.given = NoId)
          => /\ last_op'.id \notin StoreIds(store_entities)
             /\ Len(store_entities') = Len(store_entities) + 1]_vars

(***************************************************************************)
(* _split_sentences_with_spans on its own, over every short text           *)
(***************************************************************************)
MaxLen == 5
SplitAlphabet == {"a", ".", " ", "?"}
SplitTexts == ListsUpTo(SplitAlphabet, MaxLen)

InitSplit ==
    /\ NerIdle
    /\ LlmIdle
    /\ FactIdle
    /\ SentenceIdle
    /\ EntityIdle
    /\ StoreIdle
    /\ split_text \in SplitTexts
    /\ split_pc = "idle"
    /\ split_sentences = <<>>

SplitCall ==
    /\ split_pc = "idle"
    /\ split_sentences' = SplitSentencesWithSpans(split_text)
    /\ split_pc' = "returned"
    /\ UNCHANGED <<split_text, nerVars, llmVars, factVars, sentVars, entVars, storeVars>>

NextSplit == SplitCall

SpecSplit == InitSplit /\ [][NextSplit]_vars

SpansCovering(i) ==
    {k \in 1..Len(split_sentences) :
        split_sentences[k].start <= i /\ i < split_sentences[k].end}

\* C29: the spans of the sentences returned lie within [0, len(text)], ascend
\* without overlap, each starts where the segment before it ended (the first
\* at 0, the last ends at len(text)), every non-whitespace character of the
\* text lies in exactly one span, and no sentence text is empty
C29_SpansPartitionText ==
    split_pc = "returned" =>
        LET sp == split_sentences
            n == Len(split_text)
        IN /\ \A k \in 1..Len(sp) :
                 /\ 0 <= sp[k].start
                 /\ sp[k].start < sp[k].end
                 /\ sp[k].end <= n
                 /\ sp[k].text # <<>>
                 /\ sp[k].text = Strip(Slice(split_text, sp[k].start, sp[k].end))
           /\ \A k \in 1..Len(sp) - 1 : sp[k + 1].start = sp[k].end
           /\ sp # <<>> => sp[1].start = 0 /\ sp[Len(sp)].end = n
           /\ \A i \in 0..n - 1 :
                 ~IsSpace(split_text[i + 1]) => Cardinality(SpansCovering(i)) = 1

\* three sentences: two terminated ones whose spans take the whitespace after
\* them, and a last one without a terminator
C29_Witness ==
    /\ split_pc = "returned"
    /\ split_text = <<"?", " ", ".", " ", "a">>
    /\ Len(split_sentences) = 3
    /\ split_sentences[2] = [start |-> 2, end |-> 4, text |-> <<".">>]
    /\ split_sentences[3] = [start |-> 4, end |-> 5, text |-> <<"a">>]

====
